---- MODULE Spec2Model ----
(***************************************************************************)
(* The single-page PDF synthesizer of app.py: the string escaper           *)
(* (_pdf_escape), the primitive encoders (_pdf_text, _pdf_line, _pdf_rect),*)
(* the assembler (_build_single_page_pdf) and the two layout generators    *)
(* (generate_document_pdf, generate_timetable_pdf).                        *)
(*                                                                         *)
(* A Python str is a sequence of code points, a bytes value a sequence of  *)
(* numbers in 0..255.  Every call has its own frame of local variables.    *)
(***************************************************************************)
EXTENDS Integers, Sequences, FiniteSets, TLC

VARIABLES
    request,    \* request[c]: the entry point called by call c and its arguments
    pc,         \* pc[c]: the position of call c in the code
    layout,     \* layout[c]: the locals of the layout generator run by call c
    asm,        \* asm[c]: the locals of _build_single_page_pdf in call c
    result,     \* result[c]: the bytes returned to the caller of call c
    esc         \* the value held by a caller of _pdf_escape on its own

vars == <<request, pc, layout, asm, result, esc>>

\* The two runs of the core that the caller makes.
Calls == {1, 2}

(***************************************************************************)
(* Characters and literals                                                 *)
(***************************************************************************)

\* The printable ASCII characters in code order: codes 32 to 95, and codes
\* 97 to 126 (code 96 occurs in no literal of the source).
AsciiLow == " !\"#$%&'()*+,-./0123456789:;<=>?@ABCDEFGHIJKLMNOPQRSTUVWXYZ[\\]^_"
AsciiHigh == "abcdefghijklmnopqrstuvwxyz{|}~"

\* The characters of the literals of the source
Characters ==
    {SubSeq(AsciiLow, i, i) : i \in 1..Len(AsciiLow)}
        \cup {SubSeq(AsciiHigh, i, i) : i \in 1..Len(AsciiHigh)} \cup {"\n"}

\* The code point of each of them
CodeOf ==
    [ch \in Characters |->
        IF ch = "\n" THEN 10
        ELSE IF \E i \in 1..Len(AsciiLow) : SubSeq(AsciiLow, i, i) = ch
             THEN 31 + (CHOOSE i \in 1..Len(AsciiLow) : SubSeq(AsciiLow, i, i) = ch)
             ELSE 96 + (CHOOSE i \in 1..Len(AsciiHigh) : SubSeq(AsciiHigh, i, i) = ch)]

\* ord(ch) of a one-character literal
Ord(ch) == CodeOf[ch]

\* A literal of the source as the sequence of its code points.
S(lit) == [i \in 1..Len(lit) |-> Ord(SubSeq(lit, i, i))]

BACKSLASH == Ord("\\")
LPAREN == Ord("(")
RPAREN == Ord(")")
NEWLINE == Ord("\n")
SPACE == Ord(" ")
QUESTION == Ord("?")

\* s[:n] for n >= 0
Take(s, n) == SubSeq(s, 1, IF n < Len(s) THEN n ELSE Len(s))

\* s[n:] for n >= 0
Drop(s, n) == SubSeq(s, n + 1, Len(s))

\* "".join(parts): the parts in order, joined half by half
RECURSIVE Join(_)
Join(parts) ==
    IF parts = <<>> THEN <<>>
    ELSE IF Len(parts) = 1 THEN parts[1]
    ELSE Join(Take(parts, Len(parts) \div 2)) \o Join(Drop(parts, Len(parts) \div 2))

\* str(n) of a natural number
RECURSIVE DecNat(_)
DecNat(n) ==
    IF n < 10 THEN <<48 + n>> ELSE DecNat(n \div 10) \o <<48 + (n % 10)>>

\* f"{n}" of an int
Dec(n) == IF n < 0 THEN S("-") \o DecNat(0 - n) ELSE DecNat(n)

\* f"{n:010d}" of an int: sign first, then zeros up to a width of 10
RECURSIVE ZeroFill(_, _)
ZeroFill(digits, width) ==
    IF Len(digits) >= width THEN digits ELSE ZeroFill(S("0") \o digits, width)

Dec010(n) ==
    IF n < 0 THEN S("-") \o ZeroFill(DecNat(0 - n), 9) ELSE ZeroFill(DecNat(n), 10)

\* a bug: value.encode("latin-1", "ignore"), which leaves out a character
\* that latin-1 does not have
EncodeLatin1Ignore(value) ==
    LET has(ch) == ch <= 255
    IN SelectSeq(value, has)

\* value.encode("latin-1", "replace"): one byte per character, "?" for a
\* character that latin-1 does not have
EncodeLatin1Replace(value) ==
    [i \in 1..Len(value) |-> IF value[i] <= 255 THEN value[i] ELSE QUESTION]

\* obj.endswith(suffix)
EndsWith(b, suffix) ==
    /\ Len(b) >= Len(suffix)
    /\ SubSeq(b, Len(b) - Len(suffix) + 1, Len(b)) = suffix

(***************************************************************************)
(* _pdf_escape                                                             *)
(***************************************************************************)

\* value.replace(old, new) for a one-character old: every occurrence of old
\* becomes new and every other character stays, in the order of value
Replace(value, old, new) ==
    Join([i \in 1..Len(value) |-> IF value[i] = old THEN new ELSE <<value[i]>>])

\* a bug: the backslash pass is left out
KeepBackslash(value) == value

ReplaceBackslash(value) == Replace(value, BACKSLASH, <<BACKSLASH, BACKSLASH>>)
ReplaceLParen(value) == Replace(value, LPAREN, <<BACKSLASH, LPAREN>>)
\* a bug: the closing parenthesis pass is left out
KeepRParen(value) == value

ReplaceRParen(value) == Replace(value, RPAREN, <<BACKSLASH, RPAREN>>)

\* a bug: the parentheses are escaped before the backslashes
EscapeParensFirst(value) ==
    Replace(Replace(Replace(value, LPAREN, <<BACKSLASH, LPAREN>>),
                    RPAREN, <<BACKSLASH, RPAREN>>),
            BACKSLASH, <<BACKSLASH, BACKSLASH>>)

_pdf_escape(value) == ReplaceRParen(ReplaceLParen(ReplaceBackslash(value)))

(***************************************************************************)
(* _build_single_page_pdf                                                  *)
(***************************************************************************)

\* a bug: the catalog names the page, not the page tree
CatalogPointsAtPage == S("<< /Type /Catalog /Pages 3 0 R >>")

CatalogObject == S("<< /Type /Catalog /Pages 2 0 R >>")
PagesObject == S("<< /Type /Pages /Kids [3 0 R] /Count 1 >>")
\* a bug: the page names the catalog as its parent
PageWithCatalogParent(page_width, page_height) ==
    S("<< /Type /Page /Parent 1 0 R /MediaBox [0 0 ") \o Dec(page_width)
        \o S(" ") \o Dec(page_height) \o S("] ")
        \o S("/Resources << /Font << /F1 4 0 R >> >> /Contents 5 0 R >>")

PageObject(page_width, page_height) ==
    S("<< /Type /Page /Parent 2 0 R /MediaBox [0 0 ") \o Dec(page_width)
        \o S(" ") \o Dec(page_height) \o S("] ")
        \o S("/Resources << /Font << /F1 4 0 R >> >> /Contents 5 0 R >>")
FontObject == S("<< /Type /Font /Subtype /Type1 /BaseFont /Helvetica >>")

\* a bug: the newline before "endstream" is counted
StreamLengthWithNewline(stream_bytes) == Len(stream_bytes) + 1

\* the /Length written in object 5
StreamLength(stream_bytes) == Len(stream_bytes)

StreamObject(stream_bytes) ==
    S("<< /Length ") \o Dec(StreamLength(stream_bytes)) \o S(" >>\n")
        \o S("stream\n") \o stream_bytes \o S("\nendstream")

Objects(stream_bytes, page_width, page_height) ==
    << CatalogObject, PagesObject, PageObject(page_width, page_height),
       FontObject, StreamObject(stream_bytes) >>

\* b"%PDF-1.4\n%\xe2\xe3\xcf\xd3\n"
PdfHeader == S("%PDF-1.4\n%") \o <<226, 227, 207, 211>> \o S("\n")

\* a bug: the list of offsets outlives the call (a module-level list)
SharedOffsets(c) == IF c = 1 THEN <<0>> ELSE asm[c - 1].offsets

\* a bug: the list of offsets is one list for all calls, and a call that
\* starts while another runs finds the other's offsets in it
OffsetsOfRunningCall(c) ==
    IF \E d \in Calls : d # c /\ pc[d] \in {"objects", "xref"}
    THEN asm[CHOOSE d \in Calls : d # c /\ pc[d] \in {"objects", "xref"}].offsets
    ELSE <<0>>

\* the list the offsets are collected in, as a call creates it
InitialOffsets(c) == <<0>>

\* a bug: the offset is recorded after the "<n> 0 obj" line is written
ObjectOffsetAfterHeader(pdf) == Len(pdf) + Len(S("1 0 obj\n"))

\* the offset recorded for the object about to be appended
ObjectOffset(pdf) == Len(pdf)

\* a bug: no newline is put between the body and "endobj"
SerializeObjectNoNewline(idx, obj) ==
    Dec(idx) \o S(" 0 obj\n") \o obj \o S("endobj\n")

\* one iteration of the loop over the objects
SerializeObject(idx, obj) ==
    Dec(idx) \o S(" 0 obj\n") \o obj
        \o (IF ~EndsWith(obj, S("\n")) THEN S("\n") ELSE <<>>)
        \o S("endobj\n")

\* a bug: xref_start is taken after the "xref" line is written
XrefStartAfterKeyword(pdf) == Len(pdf) + Len(S("xref\n"))

\* xref_start = len(pdf)
XrefStart(pdf) == Len(pdf)

\* a bug: the free entry is not counted
XrefSizeWithoutFree(objects) == Len(objects)

\* len(objects) + 1
XrefSize(objects) == Len(objects) + 1

XrefHeader(objects) ==
    S("xref\n0 ") \o Dec(XrefSize(objects)) \o S("\n") \o S("0000000000 65535 f \n")

\* a bug: the offset is written without the :010d format
XrefEntryUnpadded(offset) == Dec(offset) \o S(" 00000 n \n")

XrefEntry(offset) == Dec010(offset) \o S(" 00000 n \n")

\* a bug: the end-of-file marker is not followed by a newline
TrailerWithoutNewline(objects, xref_start) ==
    S("trailer\n<< /Size ") \o Dec(XrefSize(objects)) \o S(" /Root 1 0 R >>\n")
        \o S("startxref\n") \o Dec(xref_start) \o S("\n%%EOF")

Trailer(objects, xref_start) ==
    S("trailer\n<< /Size ") \o Dec(XrefSize(objects)) \o S(" /Root 1 0 R >>\n")
        \o S("startxref\n") \o Dec(xref_start) \o S("\n%%EOF\n")

\* the frame of _build_single_page_pdf before the call binds anything
NoAsm ==
    [stream_commands |-> <<>>, page_width |-> 0, page_height |-> 0,
     stream_bytes |-> <<>>, objects |-> <<>>, pdf |-> <<>>, offsets |-> <<>>,
     idx |-> 0, k |-> 0, xref_start |-> 0]

\* the call binds its three arguments
EnterBuild(c, stream_commands, page_width, page_height) ==
    /\ asm' = [asm EXCEPT ![c] = [NoAsm EXCEPT !.stream_commands = stream_commands,
                                               !.page_width = page_width,
                                               !.page_height = page_height]]
    /\ pc' = [pc EXCEPT ![c] = "encode"]

\* value.encode("latin-1") raises UnicodeEncodeError unless every character
\* has a single-byte encoding
CanEncodeLatin1(value) == \A i \in 1..Len(value) : value[i] <= 255

\* stream_bytes and the list of the five objects; the page object is
\* encoded without "replace", which raises when it cannot encode
BuildObjects(c) ==
    /\ pc[c] = "encode"
    /\ IF CanEncodeLatin1(PageObject(asm[c].page_width, asm[c].page_height))
       THEN /\ LET stream_bytes == EncodeLatin1Replace(asm[c].stream_commands)
               IN asm' = [asm EXCEPT ![c].stream_bytes = stream_bytes,
                                     ![c].objects = Objects(stream_bytes, asm[c].page_width,
                                                            asm[c].page_height)]
            /\ pc' = [pc EXCEPT ![c] = "buffer"]
       ELSE /\ pc' = [pc EXCEPT ![c] = "raised"]
            /\ UNCHANGED asm
    /\ UNCHANGED <<request, layout, result, esc>>

\* pdf = bytearray(header); offsets = [0]
InitBuffer(c) ==
    /\ pc[c] = "buffer"
    /\ asm' = [asm EXCEPT ![c].pdf = PdfHeader,
                          ![c].offsets = InitialOffsets(c),
                          ![c].idx = 1]
    /\ pc' = [pc EXCEPT ![c] = "objects"]
    /\ UNCHANGED <<request, layout, result, esc>>

\* for idx, obj in enumerate(objects, start=1): one iteration
AppendObject(c) ==
    /\ pc[c] = "objects"
    /\ asm[c].idx <= Len(asm[c].objects)
    /\ asm' = [asm EXCEPT
                 ![c].offsets = Append(@, ObjectOffset(asm[c].pdf)),
                 ![c].pdf = @ \o SerializeObject(asm[c].idx, asm[c].objects[asm[c].idx]),
                 ![c].idx = @ + 1]
    /\ UNCHANGED <<request, pc, layout, result, esc>>

\* the loop over the objects is exhausted: xref_start, the xref header and
\* the free entry
WriteXrefHeader(c) ==
    /\ pc[c] = "objects"
    /\ asm[c].idx > Len(asm[c].objects)
    /\ asm' = [asm EXCEPT ![c].xref_start = XrefStart(asm[c].pdf),
                          ![c].pdf = @ \o XrefHeader(asm[c].objects),
                          ![c].k = 2]
    /\ pc' = [pc EXCEPT ![c] = "xref"]
    /\ UNCHANGED <<request, layout, result, esc>>

\* for offset in offsets[1:]: one iteration
WriteXrefEntry(c) ==
    /\ pc[c] = "xref"
    /\ asm[c].k <= Len(asm[c].offsets)
    /\ asm' = [asm EXCEPT ![c].pdf = @ \o XrefEntry(asm[c].offsets[asm[c].k]),
                          ![c].k = @ + 1]
    /\ UNCHANGED <<request, pc, layout, result, esc>>

\* the loop over the offsets is exhausted: the trailer
WriteTrailer(c) ==
    /\ pc[c] = "xref"
    /\ asm[c].k > Len(asm[c].offsets)
    /\ asm' = [asm EXCEPT ![c].pdf = @ \o Trailer(asm[c].objects, asm[c].xref_start)]
    /\ pc' = [pc EXCEPT ![c] = "return"]
    /\ UNCHANGED <<request, layout, result, esc>>

\* return bytes(pdf)
Return(c) ==
    /\ pc[c] = "return"
    /\ result' = [result EXCEPT ![c] = asm[c].pdf]
    /\ pc' = [pc EXCEPT ![c] = "done"]
    /\ UNCHANGED <<request, layout, asm, esc>>

(***************************************************************************)
(* The primitive encoders                                                  *)
(***************************************************************************)

\* the default of _pdf_text's size parameter
DefaultTextSize == 10

_pdf_text(x, y, text, size) ==
    S("BT /F1 ") \o Dec(size) \o S(" Tf ") \o Dec(x) \o S(" ") \o Dec(y)
        \o S(" Td (") \o _pdf_escape(text) \o S(") Tj ET\n")

_pdf_line(x1, y1, x2, y2) ==
    Dec(x1) \o S(" ") \o Dec(y1) \o S(" m ") \o Dec(x2) \o S(" ") \o Dec(y2)
        \o S(" l S\n")

_pdf_rect(x, y, w, h, fill) ==
    Dec(x) \o S(" ") \o Dec(y) \o S(" ") \o Dec(w) \o S(" ") \o Dec(h)
        \o S(" re ") \o (IF fill THEN S("f") ELSE S("S")) \o S("\n")

(***************************************************************************)
(* textwrap.wrap(text, width), as generate_document_pdf calls it: the      *)
(* defaults expand_tabs, replace_whitespace, drop_whitespace and           *)
(* break_long_words are on.  The chunks are the maximal runs of whitespace *)
(* and of other characters, which is what the word separator pattern       *)
(* yields for a text without "-".  The loop that fills the lines is run    *)
(* one line per step.                                                      *)
(***************************************************************************)

\* string.whitespace as textwrap uses it: "\t\n\x0b\x0c\r "
Whitespace == {9, 10, 11, 12, 13, 32}

\* text.expandtabs(8), the column counted from `col`
RECURSIVE ExpandTabs(_, _)
ExpandTabs(text, col) ==
    IF text = <<>> THEN <<>>
    ELSE IF Head(text) = 9
         THEN [i \in 1..(8 - (col % 8)) |-> SPACE] \o ExpandTabs(Tail(text), 0)
    ELSE IF Head(text) \in {10, 13}
         THEN <<Head(text)>> \o ExpandTabs(Tail(text), 0)
    ELSE <<Head(text)>> \o ExpandTabs(Tail(text), col + 1)

\* TextWrapper._munge_whitespace
MungeWhitespace(text) ==
    LET expanded == IF \A i \in 1..Len(text) : text[i] # 9
                    THEN text ELSE ExpandTabs(text, 0)
    IN [i \in 1..Len(expanded) |->
           IF expanded[i] \in Whitespace THEN SPACE ELSE expanded[i]]

\* chunk.strip() == ''
IsBlank(chunk) == \A i \in 1..Len(chunk) : chunk[i] \in Whitespace

\* TextWrapper._split: the maximal runs of whitespace and of other
\* characters, found half by half; a run cut by the middle is put together
RECURSIVE SplitChunks(_)
SplitChunks(text) ==
    IF text = <<>> THEN <<>>
    ELSE IF Len(text) = 1 THEN <<text>>
    ELSE LET left == SplitChunks(Take(text, Len(text) \div 2))
             right == SplitChunks(Drop(text, Len(text) \div 2))
             last == left[Len(left)]
         IN IF (last[Len(last)] \in Whitespace) = (right[1][1] \in Whitespace)
            THEN Take(left, Len(left) - 1) \o <<last \o right[1]>> \o Tail(right)
            ELSE left \o right

\* the number of leading chunks that fit on a line that holds cur_len
\* characters already: no chunk is empty, so no more than width + 1 matter
FitCount(chunks, cur_len, width) ==
    LET most == IF Len(chunks) < width + 1 THEN Len(chunks) ELSE width + 1
    IN Cardinality({n \in 1..most : cur_len + Len(Join(Take(chunks, n))) <= width})

\* one iteration of the outer loop of TextWrapper._wrap_chunks, the chunks
\* in reading order: the chunks left and the lines so far
WrapOneLine(chunks, lines, width) ==
    LET \* a blank chunk never starts a line after the first
        start == IF IsBlank(Head(chunks)) /\ lines # <<>>
                 THEN Tail(chunks) ELSE chunks
        n == FitCount(start, 0, width)
        fitted == Take(start, n)
        rest == Drop(start, n)
        cur_len == Len(Join(fitted))
        \* _handle_long_word: the next chunk is longer than a whole line
        long == rest # <<>> /\ Len(Head(rest)) > width
        space_left == IF width < 1 THEN 1 ELSE width - cur_len
        broken == IF long THEN Append(fitted, Take(Head(rest), space_left))
                  ELSE fitted
        left == IF long
                THEN <<Drop(Head(rest), space_left)>> \o Tail(rest)
                ELSE rest
        \* a blank chunk never ends a line
        cur_line == IF broken # <<>> /\ IsBlank(broken[Len(broken)])
                    THEN Take(broken, Len(broken) - 1) ELSE broken
    IN [chunks |-> left,
        lines |-> IF cur_line # <<>> THEN Append(lines, Join(cur_line)) ELSE lines]

(***************************************************************************)
(* generate_document_pdf                                                   *)
(***************************************************************************)

\* the character budgets of the report
TitleBudget == 68
SubtitleBudget == 90
FooterBudget == 96
\* the width paragraphs are wrapped to
WrapWidth == 90
\* the vertical cursor: where it starts, the line and paragraph steps, and
\* the bottom margin
BodyTop == 746
LineStep == 15
ParagraphGap == 8
BottomMargin == 84

\* a bug: the slice is one short
ClipTitleShort(title) == Take(title, TitleBudget - 1)

ClipTitle(title) == Take(title, TitleBudget)
\* a bug: the subtitle is not cut
KeepSubtitle(subtitle) == subtitle

ClipSubtitle(subtitle) == Take(subtitle, SubtitleBudget)
\* a bug: the footer is not cut
KeepFooter(footer) == footer

ClipFooter(footer) == Take(footer, FooterBudget)

\* the frame of a layout generator before the call binds anything
NoLayout ==
    [cmds |-> <<>>, y |-> 0, para |-> 0, chunks |-> <<>>, wrapped |-> <<>>,
     line |-> 0, row_idx |-> 0]

\* a bug: the title is drawn before the band that is to lie under it
DocumentHeadTextFirst(title, subtitle) ==
    << S("1 1 1 rg\n"),
       _pdf_text(45, 796, ClipTitle(title), 16),
       S("0.14 0.53 0.34 rg\n"),
       _pdf_rect(30, 770, 535, 46, TRUE),
       S("1 1 1 rg\n"),
       _pdf_text(45, 780, ClipSubtitle(subtitle), 10),
       S("0 0 0 rg\n") >>

\* the fragments of the title band, then the body colour
DocumentHead(title, subtitle) ==
    << S("0.14 0.53 0.34 rg\n"),
       _pdf_rect(30, 770, 535, 46, TRUE),
       S("1 1 1 rg\n"),
       _pdf_text(45, 796, ClipTitle(title), 16),
       _pdf_text(45, 780, ClipSubtitle(subtitle), 10),
       S("0 0 0 rg\n") >>

\* the call of generate_document_pdf up to the loop over the paragraphs
CallDocument(c) ==
    /\ pc[c] = "idle"
    /\ \A d \in Calls : d < c => pc[d] = "done"
    /\ request[c].fn = "document"
    /\ layout' = [layout EXCEPT ![c] =
           [NoLayout EXCEPT !.cmds = DocumentHead(request[c].title, request[c].subtitle),
                            !.y = BodyTop,
                            !.para = 1]]
    /\ pc' = [pc EXCEPT ![c] = "para"]
    /\ UNCHANGED <<request, asm, result, esc>>

\* for para in paragraphs: textwrap.wrap(para, width=90) splits the next
\* paragraph into its chunks
WrapParagraph(c) ==
    /\ pc[c] = "para"
    /\ layout[c].para <= Len(request[c].paragraphs)
    /\ layout' = [layout EXCEPT
                    ![c].chunks = SplitChunks(MungeWhitespace(
                                      request[c].paragraphs[layout[c].para])),
                    ![c].wrapped = <<>>]
    /\ pc' = [pc EXCEPT ![c] = "wrap"]
    /\ UNCHANGED <<request, asm, result, esc>>

\* textwrap.wrap fills one more line
WrapLine(c) ==
    /\ pc[c] = "wrap"
    /\ layout[c].chunks # <<>>
    /\ LET next == WrapOneLine(layout[c].chunks, layout[c].wrapped, WrapWidth)
       IN layout' = [layout EXCEPT ![c].chunks = next.chunks,
                                   ![c].wrapped = next.lines]
    /\ UNCHANGED <<request, pc, asm, result, esc>>

\* a bug: without the "or [\"\"]" a paragraph without lines emits nothing
WrappedNoEmptyLine(c) ==
    /\ pc[c] = "wrap"
    /\ layout[c].chunks = <<>>
    /\ layout' = [layout EXCEPT ![c].line = 1]
    /\ pc' = [pc EXCEPT ![c] = "line"]
    /\ UNCHANGED <<request, asm, result, esc>>

\* textwrap.wrap returns: wrapped = its lines, or [""] when there is none
Wrapped(c) ==
    /\ pc[c] = "wrap"
    /\ layout[c].chunks = <<>>
    /\ layout' = [layout EXCEPT
                    ![c].wrapped = IF @ = <<>> THEN << <<>> >> ELSE @,
                    ![c].line = 1]
    /\ pc' = [pc EXCEPT ![c] = "line"]
    /\ UNCHANGED <<request, asm, result, esc>>

\* a bug: a line is drawn without looking at the bottom margin
DrawLineNoMargin(c) ==
    /\ pc[c] = "line"
    /\ layout[c].line <= Len(layout[c].wrapped)
    /\ layout' = [layout EXCEPT
                    ![c].cmds = Append(@, _pdf_text(44, layout[c].y,
                                                    layout[c].wrapped[layout[c].line], 11)),
                    ![c].y = @ - LineStep,
                    ![c].line = @ + 1]
    /\ UNCHANGED <<request, pc, asm, result, esc>>

\* for line in wrapped: one iteration that draws the line
DrawLine(c) ==
    /\ pc[c] = "line"
    /\ layout[c].line <= Len(layout[c].wrapped)
    /\ ~(layout[c].y < BottomMargin)
    /\ layout' = [layout EXCEPT
                    ![c].cmds = Append(@, _pdf_text(44, layout[c].y,
                                                    layout[c].wrapped[layout[c].line], 11)),
                    ![c].y = @ - LineStep,
                    ![c].line = @ + 1]
    /\ UNCHANGED <<request, pc, asm, result, esc>>

\* a bug: no gap is left after a paragraph
EndParagraphNoGap(c) ==
    /\ pc[c] = "line"
    /\ \/ layout[c].line > Len(layout[c].wrapped)
       \/ layout[c].y < BottomMargin
    /\ IF layout[c].y < BottomMargin
       THEN /\ pc' = [pc EXCEPT ![c] = "footer"]
            /\ UNCHANGED layout
       ELSE /\ pc' = [pc EXCEPT ![c] = "para"]
            /\ layout' = [layout EXCEPT ![c].para = @ + 1]
    /\ UNCHANGED <<request, asm, result, esc>>

\* the loop over the lines ends, by the break or by exhaustion; then the
\* loop over the paragraphs breaks too, or steps down to the next paragraph
EndParagraph(c) ==
    /\ pc[c] = "line"
    /\ \/ layout[c].line > Len(layout[c].wrapped)
       \/ layout[c].y < BottomMargin
    /\ IF layout[c].y < BottomMargin
       THEN /\ pc' = [pc EXCEPT ![c] = "footer"]
            /\ UNCHANGED layout
       ELSE /\ pc' = [pc EXCEPT ![c] = "para"]
            /\ layout' = [layout EXCEPT ![c].y = @ - ParagraphGap,
                                        ![c].para = @ + 1]
    /\ UNCHANGED <<request, asm, result, esc>>

\* the loop over the paragraphs is exhausted
EndParagraphs(c) ==
    /\ pc[c] = "para"
    /\ layout[c].para > Len(request[c].paragraphs)
    /\ pc' = [pc EXCEPT ![c] = "footer"]
    /\ UNCHANGED <<request, layout, asm, result, esc>>

DocumentFooter(footer) ==
    IF footer # <<>>
    THEN << S("0.33 0.33 0.33 rg\n"), _pdf_text(44, 50, ClipFooter(footer), 9) >>
    ELSE <<>>

\* the footer, and the call of _build_single_page_pdf on the joined fragments
FinishDocument(c) ==
    /\ pc[c] = "footer"
    /\ request[c].fn = "document"
    /\ LET cmds == layout[c].cmds \o DocumentFooter(request[c].footer)
       IN /\ layout' = [layout EXCEPT ![c].cmds = cmds]
          /\ EnterBuild(c, Join(cmds), 595, 842)
    /\ UNCHANGED <<request, result, esc>>

(***************************************************************************)
(* generate_timetable_pdf                                                  *)
(***************************************************************************)

x0 == 42
y_top == 458
row_h == 44
col_widths == <<88, 100, 100, 100, 100, 100, 100, 100>>
col_labels == <<S("Day"), S("P1"), S("P2"), S("P3"), S("Recess"), S("P4"), S("P5"), S("P6")>>
\* the character budget of a cell
CellBudget == 17
\* cell_items[:8]
MaxCells == 8

\* sum(widths)
RECURSIVE Sum(_)
Sum(widths) == IF widths = <<>> THEN 0 ELSE Head(widths) + Sum(Tail(widths))

table_w == Sum(col_widths)
\* a bug: the header row is not counted in the height
table_h_without_header(rows) == row_h * Len(rows)

table_h(rows) == row_h * (Len(rows) + 1)
y_bottom(rows) == y_top - table_h(rows)

TimetableTitle(program, branch) == program \o S(" - ") \o branch \o S(" Timetable")
TimetableSubtitle(semester, academic_year) ==
    S("Semester: ") \o semester \o S(" | Academic Year: ") \o academic_year

\* the title band, the legend, the header row tint and the line width
TimetableHead(branch, program, semester, academic_year) ==
    << S("0.14 0.53 0.34 rg\n"),
       _pdf_rect(34, 535, 774, 42, TRUE),
       S("1 1 1 rg\n"),
       _pdf_text(50, 560, TimetableTitle(program, branch), 17),
       _pdf_text(50, 545, TimetableSubtitle(semester, academic_year), 10),
       S("0 0 0 rg\n"),
       _pdf_text(44, 514, S("Time Slots: P1 09:00-09:50 | P2 09:55-10:45 | P3 10:50-11:40"), 9),
       _pdf_text(44, 501, S("Recess 11:40-12:20 | P4 12:20-01:10 | P5 01:15-02:05 | P6 02:10-03:00"), 9),
       S("0.90 0.96 0.92 rg\n"),
       _pdf_rect(x0, y_top - row_h, table_w, row_h, TRUE),
       S("0 0 0 rg\n"),
       S("0.9 w\n") >>

\* a bug: one line too many, along the bottom of the table
TimetableBorderWithBottomLine(rows) ==
    << _pdf_rect(x0, y_bottom(rows), table_w, table_h(rows), FALSE) >>
        \o [i \in 1..(Len(rows) + 1) |->
               _pdf_line(x0, y_top - i * row_h, x0 + table_w, y_top - i * row_h)]

\* the outer border and one horizontal line per day row
TimetableBorder(rows) ==
    << _pdf_rect(x0, y_bottom(rows), table_w, table_h(rows), FALSE) >>
        \o [i \in 1..Len(rows) |->
               _pdf_line(x0, y_top - i * row_h, x0 + table_w, y_top - i * row_h)]

\* one vertical line after each column but the last
TimetableVerticals(rows) ==
    [j \in 1..(Len(col_widths) - 1) |->
        _pdf_line(x0 + Sum(Take(col_widths, j)), y_bottom(rows),
                  x0 + Sum(Take(col_widths, j)), y_top)]

\* a bug: the labels stand above the grid
TimetableLabelsAboveGrid ==
    [j \in 1..Len(col_labels) |->
        _pdf_text(x0 + 8 + Sum(Take(col_widths, j - 1)), y_top + 27, col_labels[j],
                  DefaultTextSize)]

\* the labels of the header row
TimetableLabels ==
    [j \in 1..Len(col_labels) |->
        _pdf_text(x0 + 8 + Sum(Take(col_widths, j - 1)), y_top - 27, col_labels[j],
                  DefaultTextSize)]

ClipCell(item) == Take(item, CellBudget)

\* a bug: the list of cell items is not cut to eight
TimetableRowAllItems(row_idx, day_name, subjects) ==
    LET y_text == y_top - (row_idx + 2) * row_h + 18
        cell_items == <<day_name>> \o subjects
    IN [j \in 1..Len(cell_items) |->
           _pdf_text(x0 + 7 + Sum(Take(col_widths, j - 1)), y_text,
                     ClipCell(cell_items[j]), 9)]

\* a bug: the cell text is cut after it is escaped, which can part the two
\* characters of an escape sequence
TimetableRowCutAfterEscape(row_idx, day_name, subjects) ==
    LET y_text == y_top - (row_idx + 2) * row_h + 18
        cell_items == Take(<<day_name>> \o subjects, MaxCells)
    IN [j \in 1..Len(cell_items) |->
           S("BT /F1 9 Tf ") \o Dec(x0 + 7 + Sum(Take(col_widths, j - 1))) \o S(" ")
               \o Dec(y_text) \o S(" Td (")
               \o Take(_pdf_escape(cell_items[j]), CellBudget) \o S(") Tj ET\n")]

\* the cell texts of the day row with index row_idx (from 0)
TimetableRow(row_idx, day_name, subjects) ==
    LET y_text == y_top - (row_idx + 2) * row_h + 18
        cell_items == Take(<<day_name>> \o subjects, MaxCells)
    IN [j \in 1..Len(cell_items) |->
           _pdf_text(x0 + 7 + Sum(Take(col_widths, j - 1)), y_text,
                     ClipCell(cell_items[j]), 9)]

\* the call of generate_timetable_pdf up to the loop over the rows
CallTimetable(c) ==
    /\ pc[c] = "idle"
    /\ \A d \in Calls : d < c => pc[d] = "done"
    /\ request[c].fn = "timetable"
    /\ LET r == request[c]
       IN layout' = [layout EXCEPT ![c] =
              [NoLayout EXCEPT
                 !.cmds = TimetableHead(r.branch, r.program, r.semester, r.academic_year)
                              \o TimetableBorder(r.rows)
                              \o TimetableVerticals(r.rows)
                              \o TimetableLabels,
                 !.row_idx = 0]]
    /\ pc' = [pc EXCEPT ![c] = "rows"]
    /\ UNCHANGED <<request, asm, result, esc>>

\* a bug: the list of cell items is indexed without the cut to eight
AllCellItems(day_name, subjects) == <<day_name>> \o subjects

\* cell_items[:8] of the row
CellItems(day_name, subjects) == Take(<<day_name>> \o subjects, MaxCells)

\* col_widths[col_idx] raises IndexError unless col_idx is an index of the
\* list, for each col_idx that enumerate gives the cell items
IndexesInRange(cell_items) ==
    \A col_idx \in 0..(Len(cell_items) - 1) : col_idx < Len(col_widths)

\* for row_idx, (day_name, subjects) in enumerate(rows): one iteration
DrawRow(c) ==
    /\ pc[c] = "rows"
    /\ layout[c].row_idx < Len(request[c].rows)
    /\ LET row == request[c].rows[layout[c].row_idx + 1]
       IN IF IndexesInRange(CellItems(row.day_name, row.subjects))
          THEN /\ layout' = [layout EXCEPT
                                ![c].cmds = @ \o TimetableRow(layout[c].row_idx,
                                                              row.day_name, row.subjects),
                                ![c].row_idx = @ + 1]
               /\ UNCHANGED pc
          ELSE /\ pc' = [pc EXCEPT ![c] = "raised"]
               /\ UNCHANGED layout
    /\ UNCHANGED <<request, asm, result, esc>>

TimetableFooter ==
    << S("0.3 0.3 0.3 rg\n"),
       _pdf_text(44, 42, S("Generated by University Unified Portal"), 9) >>

\* the loop over the rows is exhausted: the footer, and the call of
\* _build_single_page_pdf on the joined fragments
FinishTimetable(c) ==
    /\ pc[c] = "rows"
    /\ layout[c].row_idx >= Len(request[c].rows)
    /\ LET cmds == layout[c].cmds \o TimetableFooter
       IN /\ layout' = [layout EXCEPT ![c].cmds = cmds]
          /\ EnterBuild(c, Join(cmds), 842, 595)
    /\ UNCHANGED <<request, result, esc>>

\* a direct call of _build_single_page_pdf
CallBuild(c) ==
    /\ pc[c] = "idle"
    /\ \A d \in Calls : d < c => pc[d] = "done"
    /\ request[c].fn = "build"
    /\ EnterBuild(c, request[c].stream_commands, request[c].page_width,
                  request[c].page_height)
    /\ UNCHANGED <<request, layout, result, esc>>

(***************************************************************************)
(* A caller of _pdf_escape on its own: it escapes a value, and may escape  *)
(* the result once more.                                                   *)
(***************************************************************************)

NoEscape == [value |-> <<>>, once |-> <<>>, twice |-> <<>>, pc |-> "off"]

EscapeOnce ==
    /\ esc.pc = "start"
    /\ esc' = [esc EXCEPT !.once = _pdf_escape(esc.value), !.pc = "once"]
    /\ UNCHANGED <<request, pc, layout, asm, result>>

EscapeTwice ==
    /\ esc.pc = "once"
    /\ esc' = [esc EXCEPT !.twice = _pdf_escape(esc.once), !.pc = "twice"]
    /\ UNCHANGED <<request, pc, layout, asm, result>>

(***************************************************************************)
(* The inputs                                                              *)
(***************************************************************************)

\* the longest content string given to _build_single_page_pdf directly
MaxContentLen == 2
\* how far a text may exceed its character budget
MaxOverBudget == 1
\* the longest value given to _pdf_escape on its own
MaxEscapeLen == 4

\* all strings over an alphabet up to a length
Strings(alphabet, n) == UNION {[1..k -> alphabet] : k \in 0..n}

\* the first n characters of a pattern repeated for ever
Cyc(pattern, n) == [i \in 1..n |-> pattern[((i - 1) % Len(pattern)) + 1]]

\* an ordinary character, a newline, a latin-1 character above ASCII and a
\* character that latin-1 does not have
ContentAlphabet == {Ord("a"), NEWLINE, 233, 8226}

\* contents that hold the keywords of the file format
KeywordContents ==
    {S("stream"), S("endstream") \o <<8226>>, S("\nendstream\nendobj\nxref\n"),
     S("5 0 obj\n"), S("%%EOF\n"), S("1 0 R 5 0 R")}

Contents == Strings(ContentAlphabet, MaxContentLen) \cup KeywordContents

PageSizes == {<<595, 842>>, <<0, 0>>, <<0 - 1, 10000>>}

BuildRequests ==
    {[fn |-> "build", stream_commands |-> s, page_width |-> wh[1], page_height |-> wh[2]] :
        s \in Contents, wh \in PageSizes}

PlainPattern == S("Unit Test ")
SpecialPattern == S("(a)\\b")

OverBudget(budget) == (budget - 1)..(budget + MaxOverBudget)

Titles ==
    {S("Unit Test")} \cup {Cyc(SpecialPattern, n) : n \in OverBudget(TitleBudget)}

Subtitles == {Cyc(PlainPattern, n) : n \in OverBudget(SubtitleBudget)}

\* paragraphs of words that fill a line each but for one column
LongWord == Cyc(S("abcdefg(hi)"), WrapWidth - 1) \o S(" ")
LongWords(words) == Cyc(LongWord, Len(LongWord) * words)

ParagraphLists ==
    { <<>>,
      <<S("A short paragraph.")>>,
      \* an empty paragraph, one of whitespace only, one word of 200
      \* characters, and a paragraph of three lines
      <<S(""), <<32, 9, 32>>, Cyc(S("abcdefghij"), 200), Cyc(S("lorem (ipsum) "), 200)>>,
      \* one paragraph of 47 lines, and 31 paragraphs of one line: both
      \* reach the bottom margin
      <<LongWords(47)>>,
      [i \in 1..31 |-> S("A short paragraph.")],
      \* a paragraph whose last line is the last that fits, and one more
      <<LongWords(45), S("A short paragraph.")>> }

Footers == {<<>>, Cyc(SpecialPattern, FooterBudget + 1)}

DocumentRequests ==
    {[fn |-> "document", title |-> t, subtitle |-> s, paragraphs |-> p, footer |-> f] :
        t \in Titles, s \in Subtitles, p \in ParagraphLists, f \in Footers}

Monday ==
    [day_name |-> S("Monday"),
     subjects |-> <<S("DSA"), S("DBMS"), S("Math"), S("RECESS"), S("OS"), S("Lab"),
                    S("Aptitude")>>]

\* a day with more subjects than periods, one of them longer than a cell
Crowded ==
    [day_name |-> Cyc(SpecialPattern, CellBudget + 1),
     subjects |-> [j \in 1..9 |-> Cyc(PlainPattern, CellBudget - 2 + j)]]

FreeDay == [day_name |-> S("Sunday"), subjects |-> <<>>]

\* a day of three subjects, the last with a backslash as its 17th character
HalfDay ==
    [day_name |-> S("Saturday"),
     subjects |-> <<S("DSA"), S(""), Cyc(S("a\\(b)"), CellBudget + 1)>>]

\* no day; one day; three days; nine, the most whose table ends on the
\* page; ten and eleven, whose table ends below y = 0
RowLists ==
    {<<>>, <<Monday>>, <<Crowded, FreeDay, HalfDay>>, [i \in 1..9 |-> FreeDay],
     [i \in 1..10 |-> FreeDay], [i \in 1..11 |-> FreeDay]}

Programs == {S("B.Tech")} \cup {Cyc(PlainPattern, n) : n \in OverBudget(TitleBudget)}
Semesters == {S("3"), Cyc(SpecialPattern, SubtitleBudget)}

TimetableRequests ==
    {[fn |-> "timetable", branch |-> S("CSE"), program |-> p, semester |-> s, rows |-> r,
      academic_year |-> S("2025-26")] :
        p \in Programs, s \in Semesters, r \in RowLists}

Requests == BuildRequests \cup DocumentRequests \cup TimetableRequests

EscapeAlphabet == {BACKSLASH, LPAREN, RPAREN, Ord("a")}

NoRequest == [fn |-> "none"]

(***************************************************************************)
(* Spec: the caller makes a request of the core, and when the call has     *)
(* returned it makes the same request once more.                           *)
(***************************************************************************)

Init ==
    /\ request \in {[c \in Calls |-> r] : r \in Requests}
    /\ pc = [c \in Calls |-> "idle"]
    /\ layout = [c \in Calls |-> NoLayout]
    /\ asm = [c \in Calls |-> NoAsm]
    /\ result = [c \in Calls |-> <<>>]
    /\ esc = NoEscape

Next ==
    \E c \in Calls :
        \/ CallBuild(c)
        \/ CallDocument(c)
        \/ WrapParagraph(c)
        \/ WrapLine(c)
        \/ Wrapped(c)
        \/ DrawLine(c)
        \/ EndParagraph(c)
        \/ EndParagraphs(c)
        \/ FinishDocument(c)
        \/ CallTimetable(c)
        \/ DrawRow(c)
        \/ FinishTimetable(c)
        \/ BuildObjects(c)
        \/ InitBuffer(c)
        \/ AppendObject(c)
        \/ WriteXrefHeader(c)
        \/ WriteXrefEntry(c)
        \/ WriteTrailer(c)
        \/ Return(c)

Spec == Init /\ [][Next]_vars

(***************************************************************************)
(* SpecEscape: _pdf_escape applied to every value over its alphabet.       *)
(***************************************************************************)

InitEscape ==
    /\ request = [c \in Calls |-> NoRequest]
    /\ pc = [c \in Calls |-> "off"]
    /\ layout = [c \in Calls |-> NoLayout]
    /\ asm = [c \in Calls |-> NoAsm]
    /\ result = [c \in Calls |-> <<>>]
    /\ esc \in {[NoEscape EXCEPT !.value = s, !.pc = "start"] :
                    s \in Strings(EscapeAlphabet, MaxEscapeLen)}

NextEscape == EscapeOnce \/ EscapeTwice

SpecEscape == InitEscape /\ [][NextEscape]_vars

(***************************************************************************)
(* SpecConcurrent: the callers call _build_single_page_pdf each on a       *)
(* thread of its own, and the statements of the calls interleave.          *)
(***************************************************************************)

ConcurrentRequests ==
    {[fn |-> "build", stream_commands |-> s, page_width |-> wh[1], page_height |-> wh[2]] :
        s \in {<<>>, S("a"), <<8226, NEWLINE>>, S("5 0 obj\n")},
        wh \in {<<595, 842>>, <<0 - 1, 10000>>}}

\* a call of _build_single_page_pdf that waits for no other call
StartBuild(c) ==
    /\ pc[c] = "idle"
    /\ request[c].fn = "build"
    /\ EnterBuild(c, request[c].stream_commands, request[c].page_width,
                  request[c].page_height)
    /\ UNCHANGED <<request, layout, result, esc>>

InitConcurrent ==
    /\ request \in [Calls -> ConcurrentRequests]
    /\ pc = [c \in Calls |-> "idle"]
    /\ layout = [c \in Calls |-> NoLayout]
    /\ asm = [c \in Calls |-> NoAsm]
    /\ result = [c \in Calls |-> <<>>]
    /\ esc = NoEscape

NextConcurrent ==
    \E c \in Calls :
        \/ StartBuild(c)
        \/ BuildObjects(c)
        \/ InitBuffer(c)
        \/ AppendObject(c)
        \/ WriteXrefHeader(c)
        \/ WriteXrefEntry(c)
        \/ WriteTrailer(c)
        \/ Return(c)

SpecConcurrent == InitConcurrent /\ [][NextConcurrent]_vars

(***************************************************************************)
(* SpecPair: the caller makes two requests of the layout generators, one   *)
(* after the other, which may differ in what lies within and in what lies  *)
(* beyond the budgets.                                                     *)
(***************************************************************************)

PairDocument(title, subtitle, paragraphs, footer) ==
    [fn |-> "document", title |-> title, subtitle |-> subtitle,
     paragraphs |-> paragraphs, footer |-> footer]

\* a text with its last character replaced
ChangeLast(text) == [text EXCEPT ![Len(text)] = Ord("Z")]

\* reports that differ from the first in one argument: in the title, the
\* subtitle and the footer beyond the budget, at its last character and,
\* for the footer, by its absence; in the paragraphs by whitespace at the
\* end, and by what follows 45 or 44 lines of a long paragraph
PairDocuments ==
    LET title == Cyc(SpecialPattern, TitleBudget)
        subtitle == Cyc(PlainPattern, SubtitleBudget)
        footer == Cyc(SpecialPattern, FooterBudget)
        short == <<S("A short paragraph.")>>
    IN { PairDocument(title, subtitle, short, footer),
         PairDocument(Cyc(SpecialPattern, TitleBudget + MaxOverBudget), subtitle, short, footer),
         PairDocument(ChangeLast(title), subtitle, short, footer),
         PairDocument(title, Cyc(PlainPattern, SubtitleBudget + MaxOverBudget), short, footer),
         PairDocument(title, ChangeLast(subtitle), short, footer),
         PairDocument(title, subtitle, short, Cyc(SpecialPattern, FooterBudget + MaxOverBudget)),
         PairDocument(title, subtitle, short, <<>>),
         PairDocument(title, subtitle, <<S("A short paragraph. \n")>>, footer),
         PairDocument(title, subtitle, <<LongWords(45), S("A short paragraph.")>>, footer),
         PairDocument(title, subtitle, <<LongWords(45), S("Another paragraph.")>>, footer),
         PairDocument(title, subtitle, <<LongWords(47)>>, footer),
         PairDocument(title, subtitle, <<LongWords(44), S("A short paragraph.")>>, footer),
         PairDocument(title, subtitle, <<LongWord \o S("tail")>>, footer),
         PairDocument(title, subtitle, <<LongWord, S("tail")>>, footer) }

\* the crowded day with other subjects after the seventh, and one more
CrowdedOtherwise ==
    [Crowded EXCEPT !.subjects =
        [j \in 1..10 |-> IF j <= 7 THEN Crowded.subjects[j] ELSE S("Sports")]]

\* the crowded day, its name and its long subjects longer still
CrowdedLonger ==
    [day_name |-> Cyc(SpecialPattern, CellBudget + 1 + MaxOverBudget),
     subjects |-> [j \in 1..9 |->
                      Cyc(PlainPattern, CellBudget - 2 + j
                                          + (IF j >= 2 THEN MaxOverBudget ELSE 0))]]

\* the crowded day with another seventh subject
CrowdedChanged ==
    [Crowded EXCEPT !.subjects = [@ EXCEPT ![7] = S("Sports")]]

PairTimetable(rows) ==
    [fn |-> "timetable", branch |-> S("CSE"), program |-> S("B.Tech"),
     semester |-> S("3"), rows |-> rows, academic_year |-> S("2025-26")]

\* timetables that differ from the first beyond the seventh subject,
\* beyond the 17th character, within both, and in the number of rows
PairTimetables ==
    { PairTimetable(<<Crowded, FreeDay, HalfDay>>),
      PairTimetable(<<CrowdedOtherwise, FreeDay, HalfDay>>),
      PairTimetable(<<CrowdedLonger, FreeDay,
                      [HalfDay EXCEPT !.subjects[3] = Cyc(S("a\\(b)"), CellBudget + 1 + MaxOverBudget)]>>),
      PairTimetable(<<CrowdedChanged, FreeDay, HalfDay>>),
      PairTimetable(<<Crowded, FreeDay>>) }

PairRequests == PairDocuments \cup PairTimetables

InitPair ==
    /\ request \in [Calls -> PairRequests]
    /\ pc = [c \in Calls |-> "idle"]
    /\ layout = [c \in Calls |-> NoLayout]
    /\ asm = [c \in Calls |-> NoAsm]
    /\ result = [c \in Calls |-> <<>>]
    /\ esc = NoEscape

NextPair ==
    \E c \in Calls :
        \/ CallDocument(c)
        \/ WrapParagraph(c)
        \/ WrapLine(c)
        \/ Wrapped(c)
        \/ DrawLine(c)
        \/ EndParagraph(c)
        \/ EndParagraphs(c)
        \/ FinishDocument(c)
        \/ CallTimetable(c)
        \/ DrawRow(c)
        \/ FinishTimetable(c)
        \/ BuildObjects(c)
        \/ InitBuffer(c)
        \/ AppendObject(c)
        \/ WriteXrefHeader(c)
        \/ WriteXrefEntry(c)
        \/ WriteTrailer(c)
        \/ Return(c)

SpecPair == InitPair /\ [][NextPair]_vars

(***************************************************************************)
(* Reading a returned buffer the way a PDF reader does: from the trailer   *)
(* to the cross-reference table, and from there to the objects.            *)
(***************************************************************************)

Done(c) == pc[c] = "done"

\* the bytes b hold the literal lit at index off (counted from 0)
HoldsAt(b, off, lit) ==
    /\ off >= 0
    /\ off + Len(lit) <= Len(b)
    /\ SubSeq(b, off + 1, off + Len(lit)) = lit

IsDigit(x) == x \in 48..57

\* the number a run of decimal digits spells
RECURSIVE ParseDec(_)
ParseDec(digits) ==
    IF digits = <<>> THEN 0
    ELSE 10 * ParseDec(SubSeq(digits, 1, Len(digits) - 1)) + (digits[Len(digits)] - 48)

\* the length of the run of digits that ends before index `end` (from 0)
RECURSIVE DigitsBefore(_, _)
DigitsBefore(b, end) ==
    IF end >= 1 /\ IsDigit(b[end]) THEN 1 + DigitsBefore(b, end - 1) ELSE 0

\* the length of the run of digits that starts at index `start` (from 0)
RECURSIVE DigitsFrom(_, _)
DigitsFrom(b, start) ==
    IF start < Len(b) /\ IsDigit(b[start + 1]) THEN 1 + DigitsFrom(b, start + 1) ELSE 0

EofMarker == S("\n%%EOF\n")

\* the number written between "startxref\n" and "\n%%EOF\n" at the end
ReadStartXref(b) ==
    LET end == Len(b) - Len(EofMarker)
        n == DigitsBefore(b, end)
    IN ParseDec(SubSeq(b, end - n + 1, end))

\* the buffer ends "startxref\n<digits>\n%%EOF\n"
TrailerEndsWell(b) ==
    LET end == Len(b) - Len(EofMarker)
        n == DigitsBefore(b, end)
    IN /\ EndsWith(b, EofMarker)
       /\ n >= 1
       /\ HoldsAt(b, end - n - Len(S("startxref\n")), S("startxref\n"))

\* where line n of the cross-reference table starts; line 0 is the free entry
XrefLineAt(b, n) == ReadStartXref(b) + Len(S("xref\n0 6\n")) + 20 * n

\* line n of the table is ten digits and " 00000 n \n"
XrefLineWell(b, n) ==
    /\ XrefLineAt(b, n) + 20 <= Len(b)
    /\ \A i \in 1..10 : IsDigit(b[XrefLineAt(b, n) + i])
    /\ HoldsAt(b, XrefLineAt(b, n) + 10, S(" 00000 n \n"))

\* the offset written in the n-th in-use line of the table
ReadXrefOffset(b, n) ==
    ParseDec(SubSeq(b, XrefLineAt(b, n) + 1, XrefLineAt(b, n) + 10))

\* C1: for every object number n in 1..5 the offset in the n-th in-use line
\* of the cross-reference table of the returned bytes is the index at which
\* "<n> 0 obj" starts: object 1 right after the header, every later object
\* right after the "endobj\n" before it.
C1_XrefOffsetsPointAtObjects ==
    \A c \in Calls : Done(c) =>
        /\ TrailerEndsWell(result[c])
        /\ \A n \in 1..5 :
            /\ XrefLineWell(result[c], n)
            /\ LET off == ReadXrefOffset(result[c], n)
               IN /\ HoldsAt(result[c], off, Dec(n) \o S(" 0 obj"))
                  /\ IF n = 1
                     THEN SubSeq(result[c], 1, off) = PdfHeader
                     ELSE HoldsAt(result[c], off - Len(S("endobj\n")), S("endobj\n"))

\* a returned buffer whose page size has a sign and five digits, which
\* moves the offsets of objects 4 and 5
C1_Witness ==
    \E c \in Calls :
        /\ Done(c)
        /\ request[c].fn = "build"
        /\ request[c].page_width < 0
        /\ request[c].stream_commands = S("5 0 obj\n")
        /\ ReadXrefOffset(result[c], 5) > ReadXrefOffset(result[c], 4)

\* where the stream body of object 5 starts, and the /Length before it
StreamDictAt(b) == ReadXrefOffset(b, 5) + Len(S("5 0 obj\n<< /Length "))
ReadLength(b) ==
    ParseDec(SubSeq(b, StreamDictAt(b) + 1, StreamDictAt(b) + DigitsFrom(b, StreamDictAt(b))))
StreamBodyStart(b) ==
    StreamDictAt(b) + DigitsFrom(b, StreamDictAt(b)) + Len(S(" >>\nstream\n"))
\* object 5 is closed by "\nendstream\nendobj\n" right before the table
StreamBodyEnd(b) == ReadStartXref(b) - Len(S("\nendstream\nendobj\n"))

\* C2: the /Length written in object 5 equals the number of bytes between
\* the "stream\n" that follows the /Length dictionary and the "\nendstream"
\* that closes object 5, whatever the content holds.
C2_LengthIsStreamBodyLength ==
    \A c \in Calls : Done(c) =>
        LET b == result[c]
        IN /\ HoldsAt(b, ReadXrefOffset(b, 5), S("5 0 obj\n<< /Length "))
           /\ DigitsFrom(b, StreamDictAt(b)) >= 1
           /\ HoldsAt(b, StreamBodyStart(b) - Len(S(" >>\nstream\n")), S(" >>\nstream\n"))
           /\ HoldsAt(b, StreamBodyEnd(b), S("\nendstream\nendobj\n"))
           /\ ReadLength(b) = StreamBodyEnd(b) - StreamBodyStart(b)

\* a content that holds the word "endstream" and a character without a
\* one-byte encoding
C2_Witness ==
    \E c \in Calls :
        /\ Done(c)
        /\ request[c].fn = "build"
        /\ request[c].stream_commands = S("endstream") \o <<8226>>
        /\ ReadLength(result[c]) = 10

\* C3: the number after "startxref" is the index at which the "xref"
\* keyword of the cross-reference section starts, which is the length the
\* buffer had right after the "endobj\n" of object 5.
C3_StartxrefPointsAtXref ==
    \A c \in Calls :
        /\ Done(c) =>
            LET b == result[c]
                xs == ReadStartXref(b)
            IN /\ TrailerEndsWell(b)
               /\ HoldsAt(b, xs, S("xref\n"))
               /\ HoldsAt(b, xs - Len(S("\nendstream\nendobj\n")), S("\nendstream\nendobj\n"))
               /\ HoldsAt(b, xs + Len(S("xref\n0 6\n")) + 20 * 6, S("trailer\n"))
               /\ xs = asm[c].xref_start
        \* right after object 5 is appended the buffer has the length that
        \* is written later
        /\ (pc[c] \in {"xref", "return"}) =>
               /\ HoldsAt(asm[c].pdf, asm[c].xref_start, S("xref\n"))
               /\ HoldsAt(asm[c].pdf, asm[c].xref_start - Len(S("endobj\n")), S("endobj\n"))

\* a returned buffer whose content itself holds "endobj\nxref\n"
C3_Witness ==
    \E c \in Calls :
        /\ Done(c)
        /\ request[c].fn = "build"
        /\ request[c].stream_commands = S("\nendstream\nendobj\nxref\n")
        /\ ReadStartXref(result[c]) > 0

\* C4: exactly 5 objects are emitted, numbered 1,2,3,4,5 in that order and
\* one right after the other from the header to the cross-reference
\* section, whatever the content size; the xref subsection header and the
\* trailer /Size both declare 6.
C4_FiveObjectsSizeSix ==
    \A c \in Calls : Done(c) =>
        LET b == result[c]
            xs == ReadStartXref(b)
            start(n) == IF n = 6 THEN xs ELSE ReadXrefOffset(b, n)
        IN /\ Len(asm[c].objects) = 5
           /\ Len(asm[c].offsets) = 6
           /\ SubSeq(b, 1, start(1)) = PdfHeader
           /\ \A n \in 1..5 :
                /\ HoldsAt(b, start(n), Dec(n) \o S(" 0 obj\n"))
                /\ start(n) < start(n + 1)
                /\ HoldsAt(b, start(n + 1) - Len(S("endobj\n")), S("endobj\n"))
           /\ HoldsAt(b, xs, S("xref\n0 6\n0000000000 65535 f \n"))
           /\ HoldsAt(b, xs + Len(S("xref\n0 6\n")) + 20 * 6,
                      S("trailer\n<< /Size 6 /Root 1 0 R >>\n"))

\* a returned buffer built from the empty content
C4_Witness ==
    \E c \in Calls :
        /\ Done(c)
        /\ request[c].fn = "build"
        /\ request[c].stream_commands = <<>>
        /\ ReadLength(result[c]) = 0

\* C8: two runs on identical arguments return byte-identical buffers,
\* whichever of the three entry points is called.
C8_SameArgumentsSameBytes ==
    \A c, d \in Calls :
        (Done(c) /\ Done(d) /\ request[c] = request[d]) => result[c] = result[d]

\* the second run of a report has returned after the first
C8_Witness ==
    /\ Done(1) /\ Done(2)
    /\ request[1] = request[2]
    /\ request[1].fn = "document"
    /\ result[2] # <<>>

(***************************************************************************)
(* Reading a string literal of a content stream                            *)
(***************************************************************************)

\* the three characters that _pdf_escape escapes
Special == {BACKSLASH, LPAREN, RPAREN}

HasSpecial(s) == \E i \in 1..Len(s) : s[i] \in Special

\* a single pass from left to right: a backslash before each special
\* character, every other character copied
SinglePassEscape(s) ==
    Join([i \in 1..Len(s) |-> IF s[i] \in Special THEN <<BACKSLASH, s[i]>> ELSE <<s[i]>>])

\* the number of backslashes in a row that end at index m
BackslashRun(e, m) ==
    Cardinality({j \in 1..m : \A k \in j..m : e[k] = BACKSLASH})

\* A literal read from left to right, each two-character escape sequence
\* (a backslash, then a special character) replaced by its second
\* character.  The literal is read half by half; the cut is moved one to
\* the right when it would part the two characters of an escape sequence,
\* which is when an odd number of backslashes in a row end at the cut and
\* a special character follows.
RECURSIVE Unescape(_)
Unescape(e) ==
    IF Len(e) <= 1 THEN e
    ELSE IF Len(e) = 2
         THEN (IF e[1] = BACKSLASH /\ e[2] \in Special THEN <<e[2]>> ELSE e)
    ELSE LET m == Len(e) \div 2
             cut == IF BackslashRun(e, m) % 2 = 1 /\ e[m + 1] \in Special
                    THEN m + 1 ELSE m
         IN Unescape(Take(e, cut)) \o Unescape(Drop(e, cut))

TextShowEnd == S(") Tj ET\n")

\* the fragment places a text of the given size at (x, y)
IsTextAt(frag, x, y, size) ==
    /\ HoldsAt(frag, 0, S("BT /F1 ") \o Dec(size) \o S(" Tf ") \o Dec(x) \o S(" ")
                            \o Dec(y) \o S(" Td ("))
    /\ EndsWith(frag, TextShowEnd)

\* the text a text fragment shows: the literal between the first "(" and
\* the closing ") Tj ET\n", unescaped
TextOf(frag) ==
    LET open == CHOOSE p \in 1..Len(frag) :
                    frag[p] = LPAREN /\ \A q \in 1..(p - 1) : frag[q] # LPAREN
    IN Unescape(SubSeq(frag, open + 1, Len(frag) - Len(TextShowEnd)))

\* C5: _pdf_escape returns what a single left-to-right pass returns that
\* puts a backslash before each backslash, "(" and ")" and copies every
\* other character; the backslashes put before parentheses are not escaped
\* again.
C5_EscapeIsSinglePass ==
    /\ esc.pc \in {"once", "twice"} => esc.once = SinglePassEscape(esc.value)
    /\ esc.pc = "twice" => esc.twice = SinglePassEscape(esc.once)

\* a value that holds the three special characters has been escaped
C5_Witness ==
    /\ esc.pc = "once"
    /\ esc.value = <<LPAREN, BACKSLASH, RPAREN>>
    /\ Len(esc.once) = 6

\* C6: reading _pdf_escape(s) from left to right and replacing each escape
\* sequence by its second character gives back s.
C6_UnescapeGivesBack ==
    /\ esc.pc \in {"once", "twice"} => Unescape(esc.once) = esc.value
    /\ esc.pc = "twice" => Unescape(esc.twice) = esc.once

\* a value of backslashes and parentheses in a row has been escaped
C6_Witness ==
    /\ esc.pc = "once"
    /\ esc.value = <<BACKSLASH, BACKSLASH, LPAREN, Ord("a")>>
    /\ Unescape(esc.once) = esc.value

\* C7: escaping twice gives what escaping once gives if and only if the
\* value holds none of the three special characters; when it holds one the
\* second application lengthens the result.
C7_IdempotentIffNoSpecial ==
    esc.pc = "twice" =>
        /\ (esc.twice = esc.once) <=> ~HasSpecial(esc.value)
        /\ HasSpecial(esc.value) => Len(esc.twice) > Len(esc.once)

\* a value whose only special character is ")" has been escaped twice
C7_Witness ==
    /\ esc.pc = "twice"
    /\ esc.value = <<Ord("a"), RPAREN>>
    /\ Len(esc.twice) > Len(esc.once)

\* C9: the title fragment of a report shows the title itself when it has
\* at most 68 characters, and its first 68 characters when it has 69 or
\* more.
C9_TitleCutAt68 ==
    \A c \in Calls :
        (request[c].fn = "document" /\ pc[c] # "idle") =>
            LET frag == layout[c].cmds[4]
                title == request[c].title
            IN /\ IsTextAt(frag, 45, 796, 16)
               /\ Len(title) <= 68 => TextOf(frag) = title
               /\ Len(title) >= 69 => TextOf(frag) = SubSeq(title, 1, 68)

\* a report with a title of 69 characters has been returned
C9_Witness ==
    \E c \in Calls :
        /\ Done(c)
        /\ request[c].fn = "document"
        /\ Len(request[c].title) = 69
        /\ Len(TextOf(layout[c].cmds[4])) = 68

\* the fragments of a timetable before its cell texts: the head, the
\* border and the lines, the labels
TimetableFrame(rows) == 12 + 1 + Len(rows) + 7 + 8

\* C10: no title, subtitle or cell text fragment of either generator shows
\* more characters than its budget, however long the caller's strings are:
\* 68 for a title and 90 for a subtitle, as in the report, and 17 for a
\* cell.
C10_TextsWithinBudget ==
    \A c \in Calls :
        /\ (request[c].fn \in {"document", "timetable"} /\ pc[c] # "idle") =>
               /\ Len(TextOf(layout[c].cmds[4])) <= 68
               /\ Len(TextOf(layout[c].cmds[5])) <= 90
        /\ (request[c].fn = "timetable" /\ pc[c] = "rows") =>
               \A k \in (TimetableFrame(request[c].rows) + 1)..Len(layout[c].cmds) :
                   Len(TextOf(layout[c].cmds[k])) <= 17

(***************************************************************************)
(* The layout of the returned bytes                                        *)
(***************************************************************************)

\* call c has returned and the caller has not made its next call: the
\* state in which its bytes are handed over, which no later step changes
Returned(c) == Done(c) /\ \A d \in Calls : d > c => pc[d] = "idle"

\* "%PDF-1.4\n%", the bytes E2 E3 CF D3 and a newline
HeaderBytes == S("%PDF-1.4\n%") \o <<226, 227, 207, 211>> \o S("\n")

\* object n as it is written: its first line, its body, a newline exactly
\* when the body does not end with one, and "endobj\n"
ObjectPart(n, body) ==
    Dec(n) \o S(" 0 obj\n") \o body
        \o (IF body # <<>> /\ body[Len(body)] = NEWLINE THEN <<>> ELSE <<NEWLINE>>)
        \o S("endobj\n")

\* the bytes of a cross-reference section of six lines
XrefSectionLen == Len(S("xref\n0 6\n")) + 20 * 6

\* how often the literal occurs in the bytes
CountOf(b, lit) == Cardinality({i \in 0..(Len(b) - Len(lit)) : HoldsAt(b, i, lit)})

\* C11: the returned bytes are the 15-byte header, then the five objects
\* each written as "<n> 0 obj\n", body, a newline when the body lacks one,
\* "endobj\n", then the cross-reference section, then the trailer, and
\* nothing else: object 1 starts at offset 15 and each later object where
\* the "endobj\n" before it ends.
C11_BufferIsHeaderObjectsXrefTrailer ==
    \A c \in Calls : Returned(c) =>
        LET b == result[c]
            objs == asm[c].objects
            parts == [n \in 1..5 |-> ObjectPart(n, objs[n])]
            xs == Len(HeaderBytes) + Len(Join(parts))
            start(n) == Len(HeaderBytes) + Len(Join(SubSeq(parts, 1, n - 1)))
        IN /\ Len(HeaderBytes) = 15
           /\ Len(objs) = 5
           /\ Len(b) >= xs + XrefSectionLen
           /\ SubSeq(b, 1, xs) = HeaderBytes \o Join(parts)
           /\ HoldsAt(b, xs, S("xref\n0 6\n"))
           /\ SubSeq(b, xs + XrefSectionLen + 1, Len(b))
                = S("trailer\n<< /Size 6 /Root 1 0 R >>\nstartxref\n") \o Dec(xs)
                    \o S("\n%%EOF\n")
           /\ start(1) = 15
           /\ \A n \in 1..5 :
                /\ asm[c].offsets[n + 1] = start(n)
                /\ HoldsAt(b, start(n), Dec(n) \o S(" 0 obj\n"))
                /\ n > 1 => HoldsAt(b, start(n) - Len(S("endobj\n")), S("endobj\n"))

\* a timetable has been returned: its content ends with a newline, the
\* body of object 5 ends with "endstream", and one newline follows it
C11_Witness ==
    \E c \in Calls :
        /\ Done(c)
        /\ request[c].fn = "timetable"
        /\ EndsWith(asm[c].stream_bytes, S("ET\n"))
        /\ EndsWith(asm[c].objects[5], S("ET\n\nendstream"))
        /\ HoldsAt(result[c], 15, S("1 0 obj\n<< /Type /Catalog"))

\* C12: the cross-reference section is "xref\n0 6\n", the free entry
\* "0000000000 65535 f \n", then one line per object in object order; each
\* of the six lines has 20 bytes, the offset written with exactly ten
\* decimal digits, whatever the length of the content.
C12_XrefLinesOfTwentyBytes ==
    \A c \in Calls : Returned(c) =>
        LET b == result[c]
            xs == ReadStartXref(b)
        IN /\ HoldsAt(b, xs, S("xref\n0 6\n"))
           /\ HoldsAt(b, XrefLineAt(b, 0), S("0000000000 65535 f \n"))
           /\ Len(S("0000000000 65535 f \n")) = 20
           /\ \A n \in 1..5 :
                /\ XrefLineWell(b, n)
                /\ ReadXrefOffset(b, n) = asm[c].offsets[n + 1]
                /\ HoldsAt(b, ReadXrefOffset(b, n), Dec(n) \o S(" 0 obj\n"))
           /\ HoldsAt(b, XrefLineAt(b, 6), S("trailer\n"))

\* a report whose content has more than 4000 bytes has been returned, the
\* offset of its object 5 written as three digits after seven zeros
C12_Witness ==
    \E c \in Calls :
        /\ Done(c)
        /\ request[c].fn = "document"
        /\ Len(asm[c].stream_bytes) > 4000
        /\ HoldsAt(result[c], XrefLineAt(result[c], 5), S("0000000"))
        /\ ReadXrefOffset(result[c], 5) >= 100

\* the body of the content stream, read from the returned bytes
StreamBody(b) == SubSeq(b, StreamBodyStart(b) + 1, StreamBodyEnd(b))

\* C13 as claimed: the returned bytes end with "%%EOF\n" and the marker
\* "%%EOF" occurs exactly once in them, whatever the content string.
C13_SingleEofMarker ==
    \A c \in Calls : Returned(c) =>
        /\ EndsWith(result[c], S("%%EOF\n"))
        /\ CountOf(result[c], S("%%EOF")) = 1

\* C13 as amended: the returned bytes end with "%%EOF\n" and the marker
\* occurs exactly once outside the body of the content stream, at the end;
\* in the whole output it occurs once more for each time the content holds
\* it.
C13_SingleEofMarkerAfterStream ==
    \A c \in Calls : Returned(c) =>
        LET b == result[c]
        IN /\ EndsWith(b, S("%%EOF\n"))
           /\ CountOf(b, S("%%EOF")) = 1 + CountOf(StreamBody(b), S("%%EOF"))
           /\ StreamBody(b) = EncodeLatin1Replace(asm[c].stream_commands)
           /\ HoldsAt(b, Len(b) - Len(S("%%EOF\n")), S("%%EOF"))

\* the bytes built from the content "%%EOF\n" have been returned: they
\* hold the marker twice
C13_Witness ==
    \E c \in Calls :
        /\ Done(c)
        /\ request[c].fn = "build"
        /\ request[c].stream_commands = S("%%EOF\n")
        /\ CountOf(result[c], S("%%EOF")) = 2

(***************************************************************************)
(* The indirect references of the returned bytes                           *)
(***************************************************************************)

\* where the dictionary of object n starts and ends in the bytes; the
\* dictionary of object 5 ends where its stream body starts, and region 6
\* is the trailer
DictStart(b, n) == IF n = 6 THEN XrefLineAt(b, 6) ELSE ReadXrefOffset(b, n)
DictEnd(b, n) ==
    IF n = 6 THEN Len(b)
    ELSE IF n = 5 THEN StreamBodyStart(b)
    ELSE ReadXrefOffset(b, n + 1)

\* the object numbers k written as "k 0 R" right after the key in region n
RefsAfter(b, n, key) ==
    {ParseDec(SubSeq(b, p + Len(key) + 1, p + Len(key) + DigitsFrom(b, p + Len(key)))) :
        p \in {q \in DictStart(b, n)..(DictEnd(b, n) - Len(key)) :
                  /\ HoldsAt(b, q, key)
                  /\ DigitsFrom(b, q + Len(key)) >= 1
                  /\ HoldsAt(b, q + Len(key) + DigitsFrom(b, q + Len(key)), S(" 0 R"))}}

\* every object number k written as "k 0 R" in region n
AllRefs(b, n) ==
    {ParseDec(SubSeq(b, p - DigitsBefore(b, p) + 1, p)) :
        p \in {q \in DictStart(b, n)..(DictEnd(b, n) - Len(S(" 0 R"))) :
                  HoldsAt(b, q, S(" 0 R")) /\ DigitsBefore(b, q) >= 1}}

\* the role of object k, read from the start of its dictionary
RoleOf(b, k) ==
    LET at == ReadXrefOffset(b, k) + Len(Dec(k) \o S(" 0 obj\n"))
    IN IF HoldsAt(b, at, S("<< /Type /Catalog ")) THEN "Catalog"
       ELSE IF HoldsAt(b, at, S("<< /Type /Pages ")) THEN "Pages"
       ELSE IF HoldsAt(b, at, S("<< /Type /Page ")) THEN "Page"
       ELSE IF HoldsAt(b, at, S("<< /Type /Font ")) THEN "Font"
       ELSE IF HoldsAt(b, at, S("<< /Length ")) /\ k = 5
                 /\ HoldsAt(b, StreamBodyStart(b) - Len(S("stream\n")), S("stream\n"))
            THEN "Content-Stream"
       ELSE "none"

\* the key in region n is followed by one reference, to an object of the role
RefersTo(b, n, key, role) ==
    /\ Cardinality(RefsAfter(b, n, key)) = 1
    /\ \A k \in RefsAfter(b, n, key) : k \in 1..5 /\ RoleOf(b, k) = role

\* C14: each indirect reference the assembler writes (Catalog /Pages,
\* Pages /Kids, Page /Parent, Page /Font /F1, Page /Contents, trailer
\* /Root) names an object in 1..5 of the role the reference expects, the
\* roles being 1 Catalog, 2 Pages, 3 Page, 4 Font, 5 Content-Stream.
C14_ReferencesNameTheirRoles ==
    \A c \in Calls : Returned(c) =>
        LET b == result[c]
        IN /\ <<RoleOf(b, 1), RoleOf(b, 2), RoleOf(b, 3), RoleOf(b, 4), RoleOf(b, 5)>>
                = <<"Catalog", "Pages", "Page", "Font", "Content-Stream">>
           /\ RefersTo(b, 1, S("/Pages "), "Pages")
           /\ RefersTo(b, 2, S("/Kids ["), "Page")
           /\ RefersTo(b, 3, S("/Parent "), "Pages")
           /\ RefersTo(b, 3, S("/F1 "), "Font")
           /\ RefersTo(b, 3, S("/Contents "), "Content-Stream")
           /\ RefersTo(b, 6, S("/Root "), "Catalog")
           /\ \A n \in 1..6 : AllRefs(b, n) \subseteq 1..5

\* the bytes of a page of size 0 by 0 have been returned, whose /MediaBox
\* holds four zeros in a row before the references of the page
C14_Witness ==
    \E c \in Calls :
        /\ Done(c)
        /\ request[c].fn = "build"
        /\ request[c].page_width = 0
        /\ RefsAfter(result[c], 3, S("/Contents ")) = {5}
        /\ RefsAfter(result[c], 6, S("/Root ")) = {1}

\* the directed graph of the five objects: an edge from n to k for each
\* "k 0 R" in the dictionary of object n
Edges(b) == {e \in (1..5) \X (1..5) : e[2] \in AllRefs(b, e[1])}

TreeEdges == {<<1, 2>>, <<2, 3>>, <<3, 4>>, <<3, 5>>}

\* the pairs joined by a path of one to five edges
PathsOf(E) ==
    LET more(R) == R \cup {p \in (1..5) \X (1..5) :
                              \E m \in 1..5 : <<p[1], m>> \in R /\ <<m, p[2]>> \in E}
    IN more(more(more(more(E))))

Acyclic(E) == \A n \in 1..5 : <<n, n>> \notin PathsOf(E)

\* C15 as claimed: the graph of the references written in the objects has
\* only the edges of the tree Catalog -> Pages -> Page -> {Font,
\* Content-Stream}, and is acyclic.
C15_ReferencesFormTree ==
    \A c \in Calls : Returned(c) =>
        /\ Edges(result[c]) \subseteq TreeEdges
        /\ Acyclic(Edges(result[c]))

\* C15 as amended: the edges are those of the tree and the one back edge
\* Page -> Pages that the page's /Parent writes; without that edge the
\* graph is the tree, which is acyclic, and with it the only cycle is
\* Pages -> Page -> Pages.
C15_TreeAndParentEdge ==
    \A c \in Calls : Returned(c) =>
        LET E == Edges(result[c])
        IN /\ E = TreeEdges \cup {<<3, 2>>}
           /\ RefsAfter(result[c], 3, S("/Parent ")) = {2}
           /\ Acyclic(E \ {<<3, 2>>})
           /\ {n \in 1..5 : <<n, n>> \in PathsOf(E)} = {2, 3}

\* bytes have been returned whose content itself spells "1 0 R 5 0 R":
\* the stream body is no dictionary, and object 5 has no edge
C15_Witness ==
    \E c \in Calls :
        /\ Done(c)
        /\ request[c].fn = "build"
        /\ request[c].stream_commands = S("1 0 R 5 0 R")
        /\ AllRefs(result[c], 5) = {}
        /\ <<3, 2>> \in Edges(result[c])

(***************************************************************************)
(* The body of a report                                                    *)
(***************************************************************************)

\* textwrap.wrap run to its end
RECURSIVE WrapAll(_, _)
WrapAll(chunks, lines) ==
    IF chunks = <<>> THEN lines
    ELSE LET next == WrapOneLine(chunks, lines, 90)
         IN WrapAll(next.chunks, next.lines)

\* the lines of a paragraph: what textwrap.wrap returns, or one empty line
WrappedLines(para) ==
    LET w == WrapAll(SplitChunks(MungeWhitespace(para)), <<>>)
    IN IF w = <<>> THEN << <<>> >> ELSE w

\* the fragments of a report before its body: the title band and a colour
DocumentFrame == Len(DocumentHead(<<>>, <<>>))

\* the loop over the paragraphs of call c has ended
BodyEnded(c) == request[c].fn = "document" /\ pc[c] = "footer"

\* C16: the body fragments of a report are, in order, a prefix of the
\* wrapped lines of all paragraphs; the first is placed at y = 746, each
\* next one 15 lower and 8 lower again for each paragraph completed before
\* it; every emitted line is placed at 84 or above, and the first line
\* that is not emitted, after which none is, would have come below 84.
C16_BodyIsPrefixOfWrappedLines ==
    \A c \in Calls :
        /\ BodyEnded(c) =>
            LET paragraphs == request[c].paragraphs
                lines == [p \in 1..Len(paragraphs) |-> WrappedLines(paragraphs[p])]
                all == Join(lines)
                \* the lines of the paragraphs before paragraph p
                before(p) == Len(Join(SubSeq(lines, 1, p - 1)))
                \* the paragraph the k-th line of all belongs to
                paraOf(k) == CHOOSE p \in 1..Len(paragraphs) :
                                 before(p) < k /\ k <= before(p) + Len(lines[p])
                cursor(k) == 746 - 15 * (k - 1) - 8 * (paraOf(k) - 1)
                emitted == Len(layout[c].cmds) - DocumentFrame
            IN /\ emitted >= 0
               /\ emitted <= Len(all)
               /\ \A k \in 1..emitted :
                    /\ IsTextAt(layout[c].cmds[DocumentFrame + k], 44, cursor(k), 11)
                    /\ TextOf(layout[c].cmds[DocumentFrame + k]) = all[k]
                    /\ cursor(k) >= 84
               /\ emitted < Len(all) => cursor(emitted + 1) < 84
        \* while the paragraphs flow, the cursor is 746 less 15 for each
        \* line emitted and 8 for each paragraph stepped past
        /\ (request[c].fn = "document" /\ pc[c] \in {"para", "wrap", "line"}) =>
               layout[c].y = 746 - 15 * (Len(layout[c].cmds) - DocumentFrame)
                                 - 8 * (layout[c].para - 1)

\* the body of a report of 31 paragraphs has ended: 29 lines are emitted,
\* the last at y = 102, and the 30th would have come at y = 79
C16_Witness ==
    \E c \in Calls :
        /\ BodyEnded(c)
        /\ Len(request[c].paragraphs) = 31
        /\ Len(layout[c].cmds) = DocumentFrame + 29
        /\ IsTextAt(layout[c].cmds[DocumentFrame + 29], 44, 102, 11)
        /\ layout[c].y = 79

\* the report of call c has added its footer and called the assembler
Composed(c) == request[c].fn = "document" /\ pc[c] = "encode"

\* the fragments of cmds that place a text of size 9 at (44, 50)
FooterTexts(cmds) == {k \in 1..Len(cmds) : IsTextAt(cmds[k], 44, 50, 9)}

\* the fragments of cmds that set the grey of the footer
GreyFragments(cmds) == {k \in 1..Len(cmds) : cmds[k] = S("0.33 0.33 0.33 rg\n")}

\* C17: a report with a non-empty footer has exactly one footer text
\* fragment, at (44, 50) with size 9, showing the first 96 characters of
\* the footer, as the last fragment of the content stream, right after the
\* grey colour, whether or not the paragraphs overflowed; a report with an
\* empty footer has neither footer fragment nor grey colour fragment.
C17_FooterLastWhenPresent ==
    \A c \in Calls : Composed(c) =>
        LET cmds == layout[c].cmds
            footer == request[c].footer
            last == Len(cmds)
        IN /\ footer # <<>> =>
                /\ FooterTexts(cmds) = {last}
                /\ GreyFragments(cmds) = {last - 1}
                /\ TextOf(cmds[last]) = SubSeq(footer, 1, IF Len(footer) < 96 THEN Len(footer) ELSE 96)
                /\ EndsWith(asm[c].stream_commands, cmds[last - 1] \o cmds[last])
           /\ footer = <<>> =>
                /\ FooterTexts(cmds) = {}
                /\ GreyFragments(cmds) = {}
                /\ Len(cmds) >= DocumentFrame
                /\ EndsWith(asm[c].stream_commands, cmds[last])

\* a report of 31 paragraphs, which overflow, with a footer of 97
\* characters has been composed: its last fragment shows 96 of them
C17_Witness ==
    \E c \in Calls :
        /\ Composed(c)
        /\ Len(request[c].paragraphs) = 31
        /\ layout[c].y < 84
        /\ Len(request[c].footer) = 97
        /\ Len(TextOf(layout[c].cmds[Len(layout[c].cmds)])) = 96

\* C18: once the cursor has come below the bottom margin while the
\* paragraphs flowed, no further paragraph line and no footer text is
\* drawn.
C18_NothingDrawnAfterOverflow ==
    \A c \in Calls :
        (Composed(c) /\ layout[c].y < 84) =>
            /\ FooterTexts(layout[c].cmds) = {}
            /\ \A k \in (DocumentFrame + 1)..Len(layout[c].cmds) :
                   \E y \in 84..746 : IsTextAt(layout[c].cmds[k], 44, y, 11)

(***************************************************************************)
(* The grid and the cells of a timetable                                   *)
(***************************************************************************)

\* the words of a fragment: what stands between its spaces, without the
\* newline at its end
RECURSIVE Words(_)
Words(frag) ==
    LET text == IF frag # <<>> /\ frag[Len(frag)] = NEWLINE
                THEN SubSeq(frag, 1, Len(frag) - 1) ELSE frag
        gaps == {i \in 1..Len(text) : text[i] = SPACE}
    IN IF gaps = {} THEN <<text>>
       ELSE LET g == CHOOSE i \in gaps : \A j \in gaps : i <= j
            IN <<SubSeq(text, 1, g - 1)>> \o Words(SubSeq(text, g + 1, Len(text)))

\* the integer a word spells, with its sign
ParseInt(word) ==
    IF word # <<>> /\ word[1] = Ord("-")
    THEN 0 - ParseDec(SubSeq(word, 2, Len(word)))
    ELSE ParseDec(word)

\* the fragment strokes a line: "x1 y1 m x2 y2 l S\n"
IsLine(frag) ==
    /\ EndsWith(frag, S(" l S\n"))
    /\ Len(Words(frag)) = 7
    /\ Words(frag)[3] = S("m")

\* the end points <<x1, y1, x2, y2>> of a line fragment
LineOf(frag) ==
    LET w == Words(frag)
    IN <<ParseInt(w[1]), ParseInt(w[2]), ParseInt(w[4]), ParseInt(w[5])>>

\* the line fragments of cmds, in order
LinesOf(cmds) == SelectSeq(cmds, IsLine)

\* where the vertical lines of the grid stand
ColumnBoundaries == <<130, 230, 330, 430, 530, 630, 730>>

\* C19: a timetable of n day rows has exactly n horizontal line
\* fragments, the i-th at y = 458 - 44*i from x = 42 to x = 830, strictly
\* between the table bottom 458 - 44*(n+1) and the table top 458, and
\* exactly 7 vertical line fragments, at x = 130, 230, ..., 730, each from
\* the table bottom to the table top.
C19_GridLines ==
    \A c \in Calls :
        (request[c].fn = "timetable" /\ pc[c] # "idle") =>
            LET n == Len(request[c].rows)
                lines == LinesOf(layout[c].cmds)
                bottom == 458 - 44 * (n + 1)
            IN /\ Len(lines) = n + 7
               /\ \A i \in 1..n :
                    /\ LineOf(lines[i]) = <<42, 458 - 44 * i, 830, 458 - 44 * i>>
                    /\ bottom < 458 - 44 * i
                    /\ 458 - 44 * i < 458
               /\ \A j \in 1..7 :
                    LineOf(lines[n + j])
                        = <<ColumnBoundaries[j], bottom, ColumnBoundaries[j], 458>>

\* a timetable of eleven days is being drawn: eleven horizontal lines, and
\* vertical lines that end below y = 0
C19_Witness ==
    \E c \in Calls :
        /\ request[c].fn = "timetable"
        /\ pc[c] = "rows"
        /\ Len(request[c].rows) = 11
        /\ Len(LinesOf(layout[c].cmds)) = 18
        /\ LineOf(LinesOf(layout[c].cmds)[18]) = <<730, 0 - 70, 730, 458>>

\* the smaller of two numbers
Min(a, b) == IF a < b THEN a ELSE b

\* where the text of the cell in column j (from 1) starts
CellX == <<49, 137, 237, 337, 437, 537, 637, 737>>

\* the timetable of call c has added its footer and called the assembler
TimetableComposed(c) == request[c].fn = "timetable" /\ pc[c] = "encode"

\* C20: each day row (day_name, subjects) emits min(8, 1 + len(subjects))
\* cell text fragments, which show the day name and then the first
\* subjects, at most 7, in order, each cut to its first 17 characters
\* before it is escaped; no fragment shows a later subject, and a row of
\* fewer than 7 subjects has no text in its last cells.
C20_CellsOfARow ==
    \A c \in Calls : TimetableComposed(c) =>
        LET rows == request[c].rows
            cmds == layout[c].cmds
            items(i) == <<rows[i].day_name>> \o rows[i].subjects
            count(i) == Min(8, 1 + Len(rows[i].subjects))
            \* the cell fragments before those of row i
            before(i) == TimetableFrame(rows)
                            + Len(Join([r \in 1..(i - 1) |-> [j \in 1..count(r) |-> j]]))
            \* the last two fragments are the colour and the text of the footer
            cells == Len(cmds) - 2 - TimetableFrame(rows)
        IN /\ cells = Len(Join([r \in 1..Len(rows) |-> [j \in 1..count(r) |-> j]]))
           /\ \A i \in 1..Len(rows) :
                \A j \in 1..count(i) :
                    LET frag == cmds[before(i) + j]
                        item == items(i)[j]
                    IN /\ IsTextAt(frag, CellX[j], 458 - 44 * (i + 1) + 18, 9)
                       /\ TextOf(frag) = SubSeq(item, 1, Min(17, Len(item)))

\* a timetable of three days has been composed: a day of 9 subjects has 8
\* cells, the last showing 17 of the 22 characters of the seventh subject;
\* a day without subjects has one cell and a day of 3 subjects four
C20_Witness ==
    \E c \in Calls :
        /\ TimetableComposed(c)
        /\ Len(request[c].rows) = 3
        /\ Len(request[c].rows[1].subjects) = 9
        /\ Len(request[c].rows[1].subjects[7]) = 22
        /\ Len(layout[c].cmds) = TimetableFrame(request[c].rows) + 8 + 1 + 4 + 2
        /\ Len(TextOf(layout[c].cmds[TimetableFrame(request[c].rows) + 8])) = 17
        /\ IsTextAt(layout[c].cmds[TimetableFrame(request[c].rows) + 8], 737, 388, 9)

(***************************************************************************)
(* Errors                                                                  *)
(***************************************************************************)

\* the bytes are a whole file: the header first, the trailer last, and in
\* between the cross-reference section the trailer points at
CompleteBuffer(b) ==
    /\ HoldsAt(b, 0, HeaderBytes)
    /\ TrailerEndsWell(b)
    /\ HoldsAt(b, ReadStartXref(b), S("xref\n0 6\n"))
    /\ HoldsAt(b, XrefLineAt(b, 6), S("trailer\n<< /Size 6 /Root 1 0 R >>\nstartxref\n"))

\* where a call can be: before it, at one of its statements, or returned
Labels ==
    {"idle", "para", "wrap", "line", "footer", "rows", "encode", "buffer", "objects",
     "xref", "return", "done"}

C22_OneBytePerCharacter ==
    \A c \in Calls :
        /\ pc[c] = "buffer" =>
            LET text == asm[c].stream_commands
                bytes == asm[c].stream_bytes
            IN /\ Len(bytes) = Len(text)
               /\ \A i \in 1..Len(text) :
                    /\ bytes[i] \in 0..255
                    /\ text[i] \in 0..255 => bytes[i] = text[i]
                    /\ text[i] \notin 0..255 => bytes[i] = 63
        /\ pc[c] = "encode" => CanEncodeLatin1(PageObject(asm[c].page_width, asm[c].page_height))
        /\ Returned(c) =>
            /\ Len(StreamBody(result[c])) = Len(asm[c].stream_commands)
            /\ ReadLength(result[c]) = Len(asm[c].stream_commands)

\* the content of a bullet and an e with an accent has been encoded: a
\* question mark and the byte E9
C22_Witness ==
    \E c \in Calls :
        /\ pc[c] = "buffer"
        /\ asm[c].stream_commands = <<8226, 233>>
        /\ asm[c].stream_bytes = <<63, 233>>

(***************************************************************************)
(* Calls that run at the same time                                         *)
(***************************************************************************)

\* the bytes a call of _build_single_page_pdf returns when it runs alone:
\* the header, the five objects, the table of their offsets, the trailer
AloneBytes(r) ==
    LET objs == Objects(EncodeLatin1Replace(r.stream_commands), r.page_width, r.page_height)
        parts == [n \in 1..5 |-> ObjectPart(n, objs[n])]
        start(n) == Len(HeaderBytes) + Len(Join(SubSeq(parts, 1, n - 1)))
    IN HeaderBytes \o Join(parts)
           \o S("xref\n0 6\n0000000000 65535 f \n")
           \o Join([n \in 1..5 |-> Dec010(start(n)) \o S(" 00000 n \n")])
           \o S("trailer\n<< /Size 6 /Root 1 0 R >>\nstartxref\n") \o Dec(start(6))
           \o S("\n%%EOF\n")

\* C23: when calls of _build_single_page_pdf run at the same time, their
\* steps interleaved in any order, each returns the bytes it returns when
\* it runs alone, and while it runs its buffer and its list of offsets
\* hold what they hold then: nothing of another call.
C23_ConcurrentCallsAsAlone ==
    \A c \in Calls :
        /\ Done(c) => result[c] = AloneBytes(request[c])
        /\ pc[c] \in {"objects", "xref", "return"} =>
               /\ asm[c].pdf = SubSeq(AloneBytes(request[c]), 1, Len(asm[c].pdf))
               /\ asm[c].offsets[1] = 0
               /\ \A n \in 2..Len(asm[c].offsets) :
                      HoldsAt(AloneBytes(request[c]), asm[c].offsets[n],
                              Dec(n - 1) \o S(" 0 obj\n"))

\* two calls on different arguments are both under way, one appending its
\* third object while the other writes its cross-reference table
C23_Witness ==
    /\ request[1] # request[2]
    /\ pc[1] = "objects" /\ asm[1].idx = 3
    /\ pc[2] = "xref" /\ asm[2].k = 4
    /\ Len(asm[1].offsets) = 3

(***************************************************************************)
(* The lines of a paragraph                                                *)
(***************************************************************************)

\* the characters of a text that are not whitespace, in order
NonSpace(text) ==
    LET inked(ch) == ch \notin {9, 10, 11, 12, 13, 32}
    IN SelectSeq(text, inked)

\* the y a text fragment is placed at: the sixth word of
\* "BT /F1 <size> Tf <x> <y> Td (...) Tj ET"
TextY(frag) == ParseInt(Words(frag)[6])

\* the x a text fragment is placed at
TextX(frag) == ParseInt(Words(frag)[5])

\* C24: every body line of a report has at most 90 characters, a word of
\* more than 90 characters being split over lines; the characters of the
\* words of each paragraph stand in its lines in their order, all of them
\* when the paragraph is followed by another on the page or the paragraphs
\* did not overflow; and a paragraph without a word is one empty line,
\* after which the next line stands 15 + 8 lower.
C24_WrappedLinesOfParagraphs ==
    \A c \in Calls : BodyEnded(c) =>
        LET cmds == layout[c].cmds
            paragraphs == request[c].paragraphs
            emitted == Len(cmds) - DocumentFrame
            body(k) == cmds[DocumentFrame + k]
            \* a paragraph starts at the first line and where a line stands
            \* 23 below the line before it; within a paragraph it is 15
            starts == {k \in 1..emitted : k = 1 \/ TextY(body(k - 1)) - TextY(body(k)) = 23}
            paraOf(k) == Cardinality({s \in starts : s <= k})
            begun == Cardinality(starts)
            linesOf(p) == {k \in 1..emitted : paraOf(k) = p}
            first(p) == CHOOSE k \in linesOf(p) : \A j \in linesOf(p) : k <= j
            inkOf(p) == NonSpace(Join([i \in 1..Cardinality(linesOf(p)) |->
                                          TextOf(body(first(p) + i - 1))]))
            overflowed == layout[c].y < 84
        IN /\ \A k \in 1..emitted : Len(TextOf(body(k))) <= 90
           /\ \A k \in 2..emitted : TextY(body(k - 1)) - TextY(body(k)) \in {15, 23}
           /\ begun <= Len(paragraphs)
           /\ ~overflowed => begun = Len(paragraphs)
           /\ \A p \in 1..begun :
                LET ink == NonSpace(paragraphs[p])
                IN /\ Len(inkOf(p)) <= Len(ink)
                   /\ inkOf(p) = SubSeq(ink, 1, Len(inkOf(p)))
                   /\ (p < begun \/ ~overflowed) => inkOf(p) = ink
                   /\ ink = <<>> =>
                        /\ Cardinality(linesOf(p)) = 1
                        /\ TextOf(body(first(p))) = <<>>

\* the body of a report has ended whose paragraphs are an empty one, one
\* of a space, a tab and a space, one word of 200 characters and a longer
\* text: two empty lines, then lines of 90, 90 and 20 characters
C24_Witness ==
    \E c \in Calls :
        /\ BodyEnded(c)
        /\ Len(request[c].paragraphs) = 4
        /\ request[c].paragraphs[2] = <<32, 9, 32>>
        /\ TextOf(layout[c].cmds[DocumentFrame + 2]) = <<>>
        /\ TextY(layout[c].cmds[DocumentFrame + 2]) = 746 - 23
        /\ TextY(layout[c].cmds[DocumentFrame + 3]) = 746 - 46
        /\ Len(TextOf(layout[c].cmds[DocumentFrame + 3])) = 90
        /\ Len(TextOf(layout[c].cmds[DocumentFrame + 5])) = 20

(***************************************************************************)
(* The order of the fragments                                              *)
(***************************************************************************)

\* the fragment shows a text
IsText(frag) == HoldsAt(frag, 0, S("BT /F1 ")) /\ EndsWith(frag, TextShowEnd)

\* the fragment fills a rectangle: "x y w h re f\n"
IsFilledRect(frag) == EndsWith(frag, S(" re f\n")) /\ Len(Words(frag)) = 6

\* the fragment strokes a rectangle: "x y w h re S\n"
IsStrokedRect(frag) == EndsWith(frag, S(" re S\n")) /\ Len(Words(frag)) = 6

\* the box <<left, bottom, right, top>> of a rectangle fragment
BoxOfRect(frag) ==
    LET w == Words(frag)
    IN <<ParseInt(w[1]), ParseInt(w[2]),
         ParseInt(w[1]) + ParseInt(w[3]), ParseInt(w[2]) + ParseInt(w[4])>>

\* the larger of two numbers
Max(a, b) == IF a < b THEN b ELSE a

\* the box <<left, bottom, right, top>> of what a fragment draws: the
\* origin of a text, the extent of a line or of a stroked rectangle
BoxOfDrawn(frag) ==
    IF IsText(frag) THEN <<TextX(frag), TextY(frag), TextX(frag), TextY(frag)>>
    ELSE IF IsLine(frag)
         THEN LET l == LineOf(frag)
              IN <<Min(l[1], l[3]), Min(l[2], l[4]), Max(l[1], l[3]), Max(l[2], l[4])>>
    ELSE BoxOfRect(frag)

\* two boxes have a point in common
Touches(a, b) == a[1] <= b[3] /\ b[1] <= a[3] /\ a[2] <= b[4] /\ b[2] <= a[4]

\* the fragment draws a text, a line or a border
IsDrawn(frag) == IsText(frag) \/ IsLine(frag) \/ IsStrokedRect(frag)

\* the fragments of a call that has composed its page
PageComposed(c) == Composed(c) \/ TimetableComposed(c)

\* C25: in the fragments of both generators every fragment that fills a
\* rectangle stands before every text, line and border that lies in or
\* crosses the rectangle, and in a timetable the fragment "0.9 w" stands
\* before the border and before every line.
C25_FillsBeforeWhatLiesOnThem ==
    \A c \in Calls : PageComposed(c) =>
        LET cmds == layout[c].cmds
            fills == {i \in 1..Len(cmds) : IsFilledRect(cmds[i])}
            drawn == {k \in 1..Len(cmds) : IsDrawn(cmds[k])}
            widths == {w \in 1..Len(cmds) : cmds[w] = S("0.9 w\n")}
        IN /\ \A i \in fills : \A k \in drawn :
                Touches(BoxOfRect(cmds[i]), BoxOfDrawn(cmds[k])) => i < k
           /\ fills # {}
           /\ \A i \in fills : \E k \in drawn :
                IsText(cmds[k]) /\ Touches(BoxOfRect(cmds[i]), BoxOfDrawn(cmds[k]))
           /\ request[c].fn = "timetable" =>
                /\ Cardinality(widths) = 1
                /\ \A w \in widths : \A k \in drawn :
                      (IsLine(cmds[k]) \/ IsStrokedRect(cmds[k])) => w < k

\* a timetable of three days is composed: the tint of the header row is
\* the tenth fragment, the width the twelfth, the border the thirteenth,
\* and the border, the first horizontal line and a label lie on the tint
C25_Witness ==
    \E c \in Calls :
        /\ TimetableComposed(c)
        /\ Len(request[c].rows) = 3
        /\ IsFilledRect(layout[c].cmds[10])
        /\ BoxOfRect(layout[c].cmds[10]) = <<42, 414, 830, 458>>
        /\ layout[c].cmds[12] = S("0.9 w\n")
        /\ IsStrokedRect(layout[c].cmds[13])
        /\ Touches(BoxOfRect(layout[c].cmds[10]), BoxOfDrawn(layout[c].cmds[13]))
        /\ IsLine(layout[c].cmds[14])
        /\ Touches(BoxOfRect(layout[c].cmds[10]), BoxOfDrawn(layout[c].cmds[14]))
        /\ IsText(layout[c].cmds[24])
        /\ Touches(BoxOfRect(layout[c].cmds[10]), BoxOfDrawn(layout[c].cmds[24]))

(***************************************************************************)
(* The string literals of the text fragments                               *)
(***************************************************************************)

\* the literal of a text fragment as it stands in the fragment: what is
\* between the first "(" and the closing ") Tj ET\n"
LiteralOf(frag) ==
    LET open == CHOOSE p \in 1..Len(frag) :
                    frag[p] = LPAREN /\ \A q \in 1..(p - 1) : frag[q] # LPAREN
    IN SubSeq(frag, open + 1, Len(frag) - Len(TextShowEnd))

\* the number of backslashes in a row that end at index m, counted
\* backwards from m
RECURSIVE RunEndingAt(_, _)
RunEndingAt(e, m) ==
    IF m = 0 \/ e[m] # BACKSLASH THEN 0 ELSE 1 + RunEndingAt(e, m - 1)

\* a literal a reader ends where the fragment ends it: each parenthesis in
\* it is escaped, each backslash is half of a pair or escapes a
\* parenthesis, and no backslash is left over at its end
WellFormedLiteral(lit) ==
    /\ \A i \in 1..Len(lit) :
          lit[i] \in {LPAREN, RPAREN} => RunEndingAt(lit, i - 1) % 2 = 1
    /\ \A i \in 1..Len(lit) :
          (lit[i] = BACKSLASH /\ RunEndingAt(lit, i) % 2 = 1) =>
              i < Len(lit) /\ lit[i + 1] \in Special
    /\ RunEndingAt(lit, Len(lit)) % 2 = 0
    /\ SinglePassEscape(Unescape(lit)) = lit

\* C26: the string literal of every text fragment is well formed: every
\* "(", ")" and backslash of the text is preceded by an escaping backslash,
\* no escape sequence is parted by the cut at a budget, the literal does
\* not end in an unpaired backslash, and the literal un-escaped is the
\* text as it was cut: the title, the subtitle and the footer of a report,
\* the cells of a timetable.
C26_LiteralsWellFormed ==
    \A c \in Calls : PageComposed(c) =>
        LET cmds == layout[c].cmds
            r == request[c]
            texts == {k \in 1..Len(cmds) : IsText(cmds[k])}
        IN /\ \A k \in texts : WellFormedLiteral(LiteralOf(cmds[k]))
           /\ r.fn = "document" =>
                /\ Unescape(LiteralOf(cmds[4])) = SubSeq(r.title, 1, Min(68, Len(r.title)))
                /\ Unescape(LiteralOf(cmds[5])) = SubSeq(r.subtitle, 1, Min(90, Len(r.subtitle)))
                /\ r.footer # <<>> =>
                     Unescape(LiteralOf(cmds[Len(cmds)]))
                         = SubSeq(r.footer, 1, Min(96, Len(r.footer)))
           /\ r.fn = "timetable" =>
                LET cellsBefore(i) ==
                        Sum([q \in 1..(i - 1) |-> Min(8, 1 + Len(r.rows[q].subjects))])
                IN \A i \in 1..Len(r.rows) :
                      \A j \in 1..Min(8, 1 + Len(r.rows[i].subjects)) :
                          LET item == (<<r.rows[i].day_name>> \o r.rows[i].subjects)[j]
                              frag == cmds[TimetableFrame(r.rows) + cellsBefore(i) + j]
                          IN Unescape(LiteralOf(frag)) = SubSeq(item, 1, Min(17, Len(item)))

\* a timetable is composed whose row has a subject that the cut at 17
\* characters ends on a backslash: the literal ends in an escaped backslash
C26_Witness ==
    \E c \in Calls :
        /\ TimetableComposed(c)
        /\ Len(request[c].rows) = 3
        /\ LET item == request[c].rows[3].subjects[3]
               frag == layout[c].cmds[Len(layout[c].cmds) - 2]
               lit == LiteralOf(frag)
           IN /\ Len(item) > 17
              /\ item[17] = BACKSLASH
              /\ item[18] = LPAREN
              /\ IsText(frag)
              /\ Len(lit) > 17
              /\ SubSeq(lit, Len(lit) - 1, Len(lit)) = <<BACKSLASH, BACKSLASH>>
              /\ RunEndingAt(lit, Len(lit)) = 2

(***************************************************************************)
(* The extent of the body                                                  *)
(***************************************************************************)

\* C27: whatever the paragraphs, a report has at most 45 body text
\* fragments, each a text of size 11 at x = 44 and at a y from 84 to 746.
C27_BodyWithinMargins ==
    \A c \in Calls :
        (request[c].fn = "document" /\ pc[c] \in {"para", "wrap", "line", "footer"}) =>
            LET cmds == layout[c].cmds
                emitted == Len(cmds) - DocumentFrame
            IN /\ emitted <= 45
               /\ emitted > 0 =>
                    LET last == cmds[Len(cmds)]
                    IN /\ IsText(last)
                       /\ 84 <= TextY(last)
                       /\ TextY(last) <= 746
                       /\ IsTextAt(last, 44, TextY(last), 11)

\* the body of a report of one long paragraph has ended with 45 lines, the
\* last at y = 86, and lines of the paragraph left over
C27_Witness ==
    \E c \in Calls :
        /\ BodyEnded(c)
        /\ Len(layout[c].cmds) - DocumentFrame = 45
        /\ TextY(layout[c].cmds[Len(layout[c].cmds)]) = 86
        /\ layout[c].line <= Len(layout[c].wrapped)
        /\ layout[c].y < 84

(***************************************************************************)
(* The place of the texts in the grid                                      *)
(***************************************************************************)

\* the left edge of each column and the right edge of the last: 42 plus
\* the widths 88, 100, ..., 100 of the columns before
ColumnEdges == <<42, 130, 230, 330, 430, 530, 630, 730, 830>>

\* C28: in a timetable the label and the cell texts of column j (from 1)
\* stand at an x from the left edge of the column up to, not including,
\* its right edge; the labels stand at a y strictly between 414 and 458,
\* and the cell texts of the day row r (from 0) at a y strictly between
\* 458 - 44*(r+2) and 458 - 44*(r+1).
C28_TextsInsideTheirCells ==
    \A c \in Calls : TimetableComposed(c) =>
        LET rows == request[c].rows
            cmds == layout[c].cmds
            count(i) == Min(8, 1 + Len(rows[i].subjects))
            before(i) == TimetableFrame(rows) + Sum([q \in 1..(i - 1) |-> count(q)])
            inColumn(frag, j) ==
                /\ IsText(frag)
                /\ ColumnEdges[j] <= TextX(frag)
                /\ TextX(frag) < ColumnEdges[j + 1]
        IN /\ \A j \in 1..8 :
                LET label == cmds[TimetableFrame(rows) - 8 + j]
                IN /\ inColumn(label, j)
                   /\ TextOf(label) = col_labels[j]
                   /\ 414 < TextY(label)
                   /\ TextY(label) < 458
           /\ \A i \in 1..Len(rows) :
                \A j \in 1..count(i) :
                    LET cell == cmds[before(i) + j]
                    IN /\ inColumn(cell, j)
                       /\ 458 - 44 * (i + 1) < TextY(cell)
                       /\ TextY(cell) < 458 - 44 * i
           /\ Len(cmds) = before(Len(rows) + 1) + 2

\* a timetable of three days is composed: the label of the eighth column
\* stands at (738, 431), the eighth cell of the first day at (737, 388)
C28_Witness ==
    \E c \in Calls :
        /\ TimetableComposed(c)
        /\ Len(request[c].rows) = 3
        /\ Len(request[c].rows[1].subjects) >= 7
        /\ TextX(layout[c].cmds[TimetableFrame(request[c].rows)]) = 738
        /\ TextY(layout[c].cmds[TimetableFrame(request[c].rows)]) = 431
        /\ TextX(layout[c].cmds[TimetableFrame(request[c].rows) + 8]) = 737
        /\ TextY(layout[c].cmds[TimetableFrame(request[c].rows) + 8]) = 388

(***************************************************************************)
(* The grid and the page                                                   *)
(***************************************************************************)

\* C29: the grid of a timetable lies on the page of 842 by 595 exactly
\* when it has at most 9 day rows: its border has the bottom
\* 458 - 44*(n+1), which is not negative exactly when n <= 9; a timetable
\* of any number of rows is composed and returned as a whole file, and
\* with 10 rows or more the border, the vertical lines and the cell texts
\* of the last row have a negative y, in the fragments and in the bytes.
C29_GridOnPageUpToNineRows ==
    \A c \in Calls :
        /\ TimetableComposed(c) =>
             LET rows == request[c].rows
                 n == Len(rows)
                 cmds == layout[c].cmds
                 border == BoxOfRect(cmds[13])
                 onPage == /\ 0 <= border[1] /\ border[3] <= 842
                           /\ 0 <= border[2] /\ border[4] <= 595
                 lastCount == Min(8, 1 + Len(rows[n].subjects))
             IN /\ IsStrokedRect(cmds[13])
                /\ border = <<42, 458 - 44 * (n + 1), 830, 458>>
                /\ onPage <=> n <= 9
                /\ border[2] >= 0 <=> n <= 9
                /\ n >= 10 =>
                     /\ Words(cmds[13])[2][1] = Ord("-")
                     /\ \A j \in 1..7 : LineOf(cmds[13 + n + j])[2] < 0
                     /\ \A j \in 1..lastCount : TextY(cmds[Len(cmds) - 2 - lastCount + j]) < 0
        /\ (Returned(c) /\ request[c].fn = "timetable") =>
             LET cmds == layout[c].cmds
             IN /\ CompleteBuffer(result[c])
                /\ HoldsAt(result[c],
                           StreamBodyStart(result[c]) + Len(Join(SubSeq(cmds, 1, 12))),
                           cmds[13])

\* a timetable of ten days has been returned: the border in its bytes is
\* "42 -26 788 484 re S"
C29_Witness ==
    \E c \in Calls :
        /\ Returned(c)
        /\ request[c].fn = "timetable"
        /\ Len(request[c].rows) = 10
        /\ layout[c].cmds[13] = S("42 -26 788 484 re S\n")
        /\ TextY(layout[c].cmds[Len(layout[c].cmds) - 2]) = 0 - 8
        /\ HoldsAt(result[c],
                   StreamBodyStart(result[c]) + Len(Join(SubSeq(layout[c].cmds, 1, 12))),
                   S("42 -26 788 484 re S\n"))

(***************************************************************************)
(* What the output depends on                                              *)
(***************************************************************************)

\* the lines of a list of paragraphs that come at 84 or above, each with
\* the y it comes at: 746 less 15 for each line before it and 8 for each
\* paragraph before its own
LinesOnPage(paragraphs) ==
    LET lines == [p \in 1..Len(paragraphs) |-> WrappedLines(paragraphs[p])]
        all == Join(lines)
        before(p) == Len(Join(SubSeq(lines, 1, p - 1)))
        paraOf(k) == CHOOSE p \in 1..Len(paragraphs) :
                         before(p) < k /\ k <= before(p) + Len(lines[p])
        cursor(k) == 746 - 15 * (k - 1) - 8 * (paraOf(k) - 1)
        count == Cardinality({k \in 1..Len(all) : cursor(k) >= 84})
    IN [k \in 1..count |-> <<cursor(k), all[k]>>]

\* the first n elements of a sequence, or all of it
FirstOf(s, n) == SubSeq(s, 1, Min(n, Len(s)))

\* two requests agree in all that lies within the budgets
Agree(r1, r2) ==
    /\ r1.fn = r2.fn
    /\ r1.fn = "document" =>
         /\ FirstOf(r1.title, 68) = FirstOf(r2.title, 68)
         /\ FirstOf(r1.subtitle, 90) = FirstOf(r2.subtitle, 90)
         /\ FirstOf(r1.footer, 96) = FirstOf(r2.footer, 96)
         /\ LinesOnPage(r1.paragraphs) = LinesOnPage(r2.paragraphs)
    /\ r1.fn = "timetable" =>
         /\ r1.branch = r2.branch /\ r1.program = r2.program
         /\ r1.semester = r2.semester /\ r1.academic_year = r2.academic_year
         /\ Len(r1.rows) = Len(r2.rows)
         /\ \A i \in 1..Len(r1.rows) :
              LET cut(row) == [j \in 1..Min(7, Len(row.subjects)) |->
                                  FirstOf(row.subjects[j], 17)]
              IN /\ FirstOf(r1.rows[i].day_name, 17) = FirstOf(r2.rows[i].day_name, 17)
                 /\ cut(r1.rows[i]) = cut(r2.rows[i])

====
